---- MODULE Spec2Model ----
(***************************************************************************)
(* Resume Diff AI backend: the /api/compare request handler (main.py),     *)
(* the document extraction dispatcher and sanitizer (file_utils.py) and    *)
(* the model-reply recovery and coercion (openai_client.py).               *)
(*                                                                         *)
(* Text is a sequence of characters; a character is a one-character        *)
(* string, except NUL which stands for the character '\x00'.               *)
(***************************************************************************)
EXTENDS Integers, Sequences, FiniteSets, TLC

VARIABLES
    pc,             \* position of the compare coroutine
    apiKey,         \* settings.OPENAI_API_KEY is non-empty
    req,            \* the request: resume_file, jd_file, jd_text
    warnings,       \* compare's local list `warnings`
    resume_text,    \* compare's local `resume_text`
    jd_final_text,  \* compare's local `jd_final_text`
    prompt_args,    \* the (jd_text, resume_text) given to call_openai_completions
    endpoint,       \* what the completions endpoint answered
    result,         \* the CompareResponseModel object, once constructed
    response,       \* the HTTP response of the request
    log,            \* history: the calls made so far, in order
    fn,             \* the function called on its own, "none" before the call
    fn_args,        \* the arguments of that call
    fn_result,      \* what that call returned or raised
    tasks           \* the locals of each of the compare requests in progress

\* the variables of a call of one function on its own
fn_vars == <<fn, fn_args, fn_result>>

\* the variables of a compare request
compare_vars == <<pc, apiKey, req, warnings, resume_text, jd_final_text,
                  prompt_args, endpoint, result, response, log>>

vars == <<pc, apiKey, req, warnings, resume_text, jd_final_text, prompt_args,
          endpoint, result, response, log, fn, fn_args, fn_result, tasks>>

-----------------------------------------------------------------------------
(* Characters and strings *)

NUL == "NUL"
\* likewise the backspace and form feed characters
BS == "BS"
FF == "FF"

\* the whitespace characters of the model's alphabet (str.split / str.strip)
Whitespace == {" ", "\t", "\n", "\r"}

Min(S) == CHOOSE x \in S : \A y \in S : x <= y
Max(S) == CHOOSE x \in S : \A y \in S : x >= y

\* s[:n]
Take(s, n) == SubSeq(s, 1, IF n < Len(s) THEN n ELSE Len(s))

\* n copies of the character c
Rep(c, n) == [i \in 1..n |-> c]

\* p occurs in s at position i
OccursAt(s, p, i) ==
    /\ i + Len(p) - 1 <= Len(s)
    /\ \A k \in 1..Len(p) : s[i + k - 1] = p[k]

\* p in s
Contains(s, p) == \E i \in 1..(Len(s) - Len(p) + 1) : OccursAt(s, p, i)

\* s.endswith(p)
EndsWith(s, p) == Len(p) <= Len(s) /\ OccursAt(s, p, Len(s) - Len(p) + 1)

\* the first position >= i that holds a character of the set cs, or 0
FindFrom(s, cs, i) ==
    IF \E j \in i..Len(s) : s[j] \in cs
    THEN CHOOSE j \in i..Len(s) : s[j] \in cs /\ \A k \in i..(j - 1) : s[k] \notin cs
    ELSE 0

\* the first position >= i that holds a character outside the set cs, or 0
FindNotFrom(s, cs, i) ==
    IF \E j \in i..Len(s) : s[j] \notin cs
    THEN CHOOSE j \in i..Len(s) : s[j] \notin cs /\ \A k \in i..(j - 1) : s[k] \in cs
    ELSE 0

\* the first position >= i where p occurs in s, or 0
FindOccurrence(s, p, i) ==
    IF \E j \in i..Len(s) : OccursAt(s, p, j)
    THEN CHOOSE j \in i..Len(s) :
            OccursAt(s, p, j) /\ \A k \in i..(j - 1) : ~OccursAt(s, p, k)
    ELSE 0

\* s.replace(p, r) for a non-empty p: leftmost non-overlapping occurrences
RECURSIVE ReplaceFrom(_, _, _, _)
ReplaceFrom(s, p, r, i) ==
    LET b == FindOccurrence(s, p, i)
    IN  IF b = 0 THEN SubSeq(s, i, Len(s))
        ELSE SubSeq(s, i, b - 1) \o r \o ReplaceFrom(s, p, r, b + Len(p))

Replace(s, p, r) == ReplaceFrom(s, p, r, 1)

\* s.split(c): the pieces between the occurrences of the character c
RECURSIVE Split(_, _)
Split(s, c) ==
    LET b == FindFrom(s, {c}, 1)
    IN  IF b = 0 THEN <<s>>
        ELSE <<SubSeq(s, 1, b - 1)>> \o Split(SubSeq(s, b + 1, Len(s)), c)

\* s.split(): the maximal runs of non-whitespace characters
RECURSIVE Words(_)
Words(s) ==
    LET b == FindNotFrom(s, Whitespace, 1)
        e == FindFrom(s, Whitespace, b)
    IN  IF b = 0 THEN <<>>
        ELSE IF e = 0 THEN <<SubSeq(s, b, Len(s))>>
        ELSE <<SubSeq(s, b, e - 1)>> \o Words(SubSeq(s, e, Len(s)))

\* sep.join(parts)
RECURSIVE Join(_, _)
Join(parts, sep) ==
    IF parts = <<>> THEN <<>>
    ELSE IF Len(parts) = 1 THEN parts[1]
    ELSE parts[1] \o sep \o Join(Tail(parts), sep)

\* s.strip()
Strip(s) ==
    LET keep == {i \in 1..Len(s) : s[i] \notin Whitespace}
    IN  IF keep = {} THEN <<>> ELSE SubSeq(s, Min(keep), Max(keep))

\* s.lower()
UpperLetters == <<"A", "B", "C", "D", "E", "F", "G", "H", "I", "J", "K", "L", "M",
                  "N", "O", "P", "Q", "R", "S", "T", "U", "V", "W", "X", "Y", "Z">>
LowerLetters == <<"a", "b", "c", "d", "e", "f", "g", "h", "i", "j", "k", "l", "m",
                  "n", "o", "p", "q", "r", "s", "t", "u", "v", "w", "x", "y", "z">>

LowerChar(c) ==
    IF \E i \in 1..26 : UpperLetters[i] = c
    THEN LowerLetters[CHOOSE i \in 1..26 : UpperLetters[i] = c]
    ELSE c

Lower(s) == [i \in 1..Len(s) |-> LowerChar(s[i])]

Digits == {"0", "1", "2", "3", "4", "5", "6", "7", "8", "9"}

DigitVal(c) ==
    CASE c = "0" -> 0 [] c = "1" -> 1 [] c = "2" -> 2 [] c = "3" -> 3 [] c = "4" -> 4
      [] c = "5" -> 5 [] c = "6" -> 6 [] c = "7" -> 7 [] c = "8" -> 8 [] c = "9" -> 9

DigitChar(d) == <<"0", "1", "2", "3", "4", "5", "6", "7", "8", "9">>[d + 1]

RECURSIVE NatOfDigits(_)
NatOfDigits(ds) ==
    IF ds = <<>> THEN 0
    ELSE 10 * NatOfDigits(SubSeq(ds, 1, Len(ds) - 1)) + DigitVal(ds[Len(ds)])

RECURSIVE DigitsOfNat(_)
DigitsOfNat(n) ==
    IF n < 10 THEN <<DigitChar(n)>> ELSE DigitsOfNat(n \div 10) \o <<DigitChar(n % 10)>>

\* str(n) of an int
IntToText(n) == IF n < 0 THEN <<"-">> \o DigitsOfNat(-n) ELSE DigitsOfNat(n)

-----------------------------------------------------------------------------
(* config.py *)

\* settings.MAX_FILE_SIZE, bytes
MAX_FILE_SIZE == 10 * 1024 * 1024

\* settings.MAX_TEXT_LENGTH, characters.  The setting is read from the
\* environment (default 100000); the model runs with a small configured value
\* so that texts longer than it can be enumerated.
MAX_TEXT_LENGTH == 60

-----------------------------------------------------------------------------
(* file_utils.py: sanitize_text *)

\* one replacement instead of the loop
TrimNewlines_Once(text) == Replace(text, <<"\n", "\n", "\n">>, <<"\n", "\n">>)

\* while '\n\n\n' in text: text = text.replace('\n\n\n', '\n\n')
RECURSIVE TrimNewlines(_)
TrimNewlines(text) ==
    IF Contains(text, <<"\n", "\n", "\n">>)
    THEN TrimNewlines(Replace(text, <<"\n", "\n", "\n">>, <<"\n", "\n">>))
    ELSE text

\* the text before truncation (file_utils.py lines 36-49)
CleanText(text) ==
    LET noNull == SelectSeq(text, LAMBDA c : c # NUL)
        lines  == Split(noNull, "\n")
        lines2 == [i \in 1..Len(lines) |-> Join(Words(lines[i]), <<" ">>)]
        joined == Join(lines2, <<"\n">>)
    IN  Strip(TrimNewlines(joined))

\* a text of exactly max_length characters reported as truncated
sanitize_text_AtLimit(text, max_length) ==
    IF Len(CleanText(text)) >= max_length
    THEN [text |-> Take(CleanText(text), max_length), was_truncated |-> TRUE]
    ELSE [text |-> CleanText(text), was_truncated |-> FALSE]

\* sanitize_text(text, max_length) -> (sanitized_text, was_truncated)
sanitize_text(text, max_length) ==
    LET clean == CleanText(text)
    IN  IF Len(clean) > max_length
        THEN [text |-> SubSeq(clean, 1, max_length), was_truncated |-> TRUE]
        ELSE [text |-> clean, was_truncated |-> FALSE]

-----------------------------------------------------------------------------
(* Outcomes of calls: a returned value or a raised exception.  msg is      *)
(* str(e) of the exception; warning is the Optional[str] returned with     *)
(* the text.                                                                *)

NoWarning == [some |-> FALSE, text |-> <<>>]
Warning(text) == [some |-> TRUE, text |-> text]

Raised(cls, msg) ==
    [ok |-> FALSE, exc |-> cls, msg |-> msg, text |-> <<>>, warning |-> NoWarning]

Returned(text, warning) ==
    [ok |-> TRUE, exc |-> "", msg |-> <<>>, text |-> text, warning |-> warning]

-----------------------------------------------------------------------------
(* Uploaded documents.  The bytes of an upload are represented by their     *)
(* length and by what each third-party reader makes of them.                *)

\* str(e) of an exception raised inside a third-party reader
LibraryError == <<"b","a","d"," ","d","a","t","a">>

\* pypdf.PdfReader: the reader raises, or yields pages; page.extract_text()
\* raises or returns text
PypdfFails == [ok |-> FALSE, pages |-> <<>>]
PypdfPages(pages) == [ok |-> TRUE, pages |-> pages]
Page(text) == [ok |-> TRUE, text |-> text]
PageFails == [ok |-> FALSE, text |-> <<>>]

\* pdfminer extract_text: raises or returns text
PdfminerFails == [ok |-> FALSE, text |-> <<>>]
PdfminerText(text) == [ok |-> TRUE, text |-> text]

\* docx.Document: raises, or yields paragraphs and table cells
DocxFails == [ok |-> FALSE, paragraphs |-> <<>>, cells |-> <<>>]
DocxParts(paragraphs, cells) == [ok |-> TRUE, paragraphs |-> paragraphs, cells |-> cells]

\* bytes.decode('utf-8'): raises UnicodeDecodeError or returns text
Utf8Fails == [ok |-> FALSE, text |-> <<>>]
Utf8Text(text) == [ok |-> TRUE, text |-> text]

PDF_MIN_CHARS  == 50
DOCX_MIN_CHARS == 20
MIN_TEXT_CHARS == 10

\* a PDF extraction that rejects a fallback text without content
extract_text_from_pdf_RejectEmpty(doc) ==
    LET py       == doc.pypdf
        pageText == [i \in 1..Len(py.pages) |->
                        IF py.pages[i].ok THEN py.pages[i].text ELSE <<>>]
        parts    == SelectSeq(pageText, LAMBDA t : t # <<>>)
        text     == Join(parts, <<"\n">>)
    IN  IF py.ok /\ text # <<>> /\ Len(Strip(text)) > PDF_MIN_CHARS
        THEN Returned(text, NoWarning)
        ELSE IF doc.pdfminer.ok /\ Strip(doc.pdfminer.text) # <<>>
             THEN Returned(doc.pdfminer.text, NoWarning)
             ELSE Raised("Exception", LibraryError)

\* extract_text_from_pdf(file_content, filename)
extract_text_from_pdf(doc) ==
    LET py       == doc.pypdf
        pageText == [i \in 1..Len(py.pages) |->
                        IF py.pages[i].ok THEN py.pages[i].text ELSE <<>>]
        parts    == SelectSeq(pageText, LAMBDA t : t # <<>>)
        text     == Join(parts, <<"\n">>)
    IN  IF py.ok /\ text # <<>> /\ Len(Strip(text)) > PDF_MIN_CHARS
        THEN Returned(text, NoWarning)
        ELSE IF doc.pdfminer.ok
             THEN Returned(doc.pdfminer.text, NoWarning)
             ELSE Raised("Exception",
                         <<"F","a","i","l","e","d"," ","t","o"," ","e","x","t",
                      "r","a","c","t"," ","t","e","x","t"," ","f","r","o",
                      "m"," ","P","D","F",":"," ">> \o LibraryError)

\* extract_text_from_docx(file_content, filename)
extract_text_from_docx(doc) ==
    LET dx    == doc.docx
        parts == SelectSeq(dx.paragraphs, LAMBDA t : Strip(t) # <<>>)
                 \o SelectSeq(dx.cells, LAMBDA t : Strip(t) # <<>>)
        text  == Join(parts, <<"\n">>)
    IN  IF ~dx.ok
        THEN Raised("Exception", <<"F","a","i","l","e","d"," ","t","o"," ","e","x","t",
                      "r","a","c","t"," ","t","e","x","t"," ","f","r","o",
                      "m"," ","D","O","C","X",":"," ">> \o LibraryError)
        ELSE IF text # <<>> /\ Len(Strip(text)) > DOCX_MIN_CHARS
        THEN Returned(text, NoWarning)
        ELSE Raised("Exception",
                    <<"F","a","i","l","e","d"," ","t","o"," ","e","x","t",
                      "r","a","c","t"," ","t","e","x","t"," ","f","r","o",
                      "m"," ","D","O","C","X",":"," ","E","x","t","r","a",
                      "c","t","e","d"," ","t","e","x","t"," ","i","s"," ",
                      "t","o","o"," ","s","h","o","r","t"," ","o","r"," ",
                      "e","m","p","t","y">>)

\* extract_text_from_txt(file_content, filename): latin-1 decodes any bytes
extract_text_from_txt(doc) ==
    IF doc.utf8.ok THEN Returned(doc.utf8.text, NoWarning)
    ELSE Returned(doc.latin1, NoWarning)

CT_PDF  == <<"a","p","p","l","i","c","a","t","i","o","n","/","p",
                      "d","f">>
CT_DOCX ==
    <<"a","p","p","l","i","c","a","t","i","o","n","/","v",
                      "n","d",".","o","p","e","n","x","m","l","f","o","r",
                      "m","a","t","s","-","o","f","f","i","c","e","d","o",
                      "c","u","m","e","n","t",".","w","o","r","d","p","r",
                      "o","c","e","s","s","i","n","g","m","l",".","d","o",
                      "c","u","m","e","n","t">>
CT_DOC  == <<"a","p","p","l","i","c","a","t","i","o","n","/","m",
                      "s","w","o","r","d">>
CT_TXT  == <<"t","e","x","t","/","p","l","a","i","n">>

EXT_PDF  == <<".", "p", "d", "f">>
EXT_DOCX == <<".", "d", "o", "c", "x">>
EXT_DOC  == <<".", "d", "o", "c">>
EXT_TXT  == <<".", "t", "x", "t">>

\* f"File size ({file_size} bytes) exceeds maximum allowed size (... bytes)"
MSG_file_size(size) ==
    <<"F","i","l","e"," ","s","i","z","e"," ","(">> \o IntToText(size)
    \o <<" ","b","y","t","e","s",")"," ","e","x","c","e","e","d","s"," ",
          "m","a","x","i","m","u","m"," ","a","l","l","o","w","e","d"," ",
          "s","i","z","e"," ","(">>
    \o IntToText(MAX_FILE_SIZE) \o <<" ","b","y","t","e","s",")">>

\* the extractor extract_text_from_file dispatches to (lines 217-233)
Extractor(filename, content_type) ==
    IF content_type = CT_PDF \/ EndsWith(Lower(filename), EXT_PDF) THEN "pdf"
    ELSE IF content_type \in {CT_DOCX, CT_DOC}
            \/ EndsWith(Lower(filename), EXT_DOCX)
            \/ EndsWith(Lower(filename), EXT_DOC) THEN "docx"
    ELSE IF content_type = CT_TXT \/ EndsWith(Lower(filename), EXT_TXT) THEN "txt"
    ELSE "none"

\* f"Unsupported file type: {content_type}. Supported types: PDF, DOCX, DOC, TXT"
MSG_unsupported(content_type) ==
    <<"U","n","s","u","p","p","o","r","t","e","d"," ","f","i","l","e"," ",
      "t","y","p","e",":"," ">> \o content_type
    \o <<"."," ","S","u","p","p","o","r","t","e","d"," ","t","y","p","e","s",
      ":"," ","P","D","F",","," ","D","O","C","X",","," ","D","O","C",",",
      " ","T","X","T">>

\* f"Extracted text from {filename} is too short or empty"
MSG_too_short(filename) ==
    <<"E","x","t","r","a","c","t","e","d"," ","t","e","x","t"," ","f","r",
      "o","m"," ">> \o filename \o <<" ","i","s"," ","t","o","o"," ","s","h","o","r","t"," ","o","r"," ",
      "e","m","p","t","y">>

\* f"Text from {filename} was truncated to {settings.MAX_TEXT_LENGTH} characters"
MSG_truncated(filename) ==
    <<"T","e","x","t"," ","f","r","o","m"," ">> \o filename \o <<" ","w","a","s"," ","t","r","u","n","c","a","t","e","d"," ","t","o"," ">>
    \o IntToText(MAX_TEXT_LENGTH) \o <<" ","c","h","a","r","a","c","t","e","r","s">>

\* upload_file.filename or "unknown"
FileName(f) == IF f.filename = <<>> THEN <<"u","n","k","n","o","w","n">> ELSE f.filename

\* an extraction that runs the extractor before it looks at the size
extract_text_from_file_SizeLast(f) ==
    LET kind  == Extractor(FileName(f), f.content_type)
        raw   == CASE kind = "pdf"  -> extract_text_from_pdf(f.doc)
                   [] kind = "docx" -> extract_text_from_docx(f.doc)
                   [] OTHER         -> extract_text_from_txt(f.doc)
        clean == sanitize_text(raw.text, MAX_TEXT_LENGTH)
    IN  IF kind = "none"
        THEN Raised("ValueError", MSG_unsupported(f.content_type))
                @@ [calls |-> <<"read">>]
        ELSE IF ~raw.ok
        THEN raw @@ [calls |-> <<"read", kind>>]
        ELSE IF f.size > MAX_FILE_SIZE
        THEN Raised("ValueError", MSG_file_size(f.size)) @@ [calls |-> <<"read", kind>>]
        ELSE IF clean.text = <<>> \/ Len(Strip(clean.text)) < MIN_TEXT_CHARS
        THEN Raised("ValueError", MSG_too_short(FileName(f)))
                @@ [calls |-> <<"read", kind, "sanitize_text">>]
        ELSE Returned(clean.text,
                      IF clean.was_truncated THEN Warning(MSG_truncated(FileName(f)))
                      ELSE NoWarning)
                @@ [calls |-> <<"read", kind, "sanitize_text">>]

\* lines 235-245: the sanitized text is returned with the truncation
\* warning, or rejected as too short
CheckClean(f, kind, clean) ==
    IF clean.text = <<>> \/ Len(Strip(clean.text)) < MIN_TEXT_CHARS
    THEN Raised("ValueError", MSG_too_short(FileName(f)))
            @@ [calls |-> <<"read", kind, "sanitize_text">>]
    ELSE Returned(clean.text,
                  IF clean.was_truncated THEN Warning(MSG_truncated(FileName(f)))
                  ELSE NoWarning)
            @@ [calls |-> <<"read", kind, "sanitize_text">>]

\* lines 218-236: the extractor raised, or its text is sanitized
CheckRaw(f, kind, raw) ==
    IF ~raw.ok
    THEN raw @@ [calls |-> <<"read", kind>>]
    ELSE CheckClean(f, kind, sanitize_text(raw.text, MAX_TEXT_LENGTH))

\* lines 214-233: the extractor for the declared type or the extension runs
Dispatch(f, kind) ==
    IF kind = "none"
    THEN Raised("ValueError", MSG_unsupported(f.content_type))
            @@ [calls |-> <<"read">>]
    ELSE CheckRaw(f, kind,
                  CASE kind = "pdf"  -> extract_text_from_pdf(f.doc)
                    [] kind = "docx" -> extract_text_from_docx(f.doc)
                    [] OTHER         -> extract_text_from_txt(f.doc))

\* extract_text_from_file(upload_file): the outcome, and in `calls` the
\* operations it performed, in order
extract_text_from_file(f) ==
    IF f.size > MAX_FILE_SIZE
    THEN Raised("ValueError", MSG_file_size(f.size)) @@ [calls |-> <<"read">>]
    ELSE Dispatch(f, Extractor(FileName(f), f.content_type))

-----------------------------------------------------------------------------
(* openai_client.py: build_comparison_prompt *)

\* COMPARISON_PROMPT_TEMPLATE
COMPARISON_PROMPT_TEMPLATE ==
    <<"Y","o","u"," ","a","r","e"," ","a"," ","s","t","r","i","c","t"," ",
      "J","S","O","N"," ","g","e","n","e","r","a","t","o","r","."," ","C",
      "o","m","p","a","r","e"," ","t","h","e"," ","f","o","l","l","o","w",
      "i","n","g"," ","J","o","b"," ","D","e","s","c","r","i","p","t","i",
      "o","n"," ","(","J","D",")"," ","t","e","x","t"," ","a","n","d"," ",
      "R","e","s","u","m","e"," ","t","e","x","t",","," ","a","n","d"," ",
      "o","u","t","p","u","t"," ","a"," ","s","i","n","g","l","e"," ","J",
      "S","O","N"," ","o","b","j","e","c","t"," ","w","i","t","h"," ","e",
      "x","a","c","t","l","y"," ","t","h","e","s","e"," ","k","e","y","s",
      ":"," ","m","a","t","c","h","P","e","r","c","e","n","t",","," ","m",
      "a","t","c","h","e","d","S","k","i","l","l","s",","," ","m","i","s",
      "s","i","n","g","S","k","i","l","l","s",","," ","h","i","g","h","l",
      "i","g","h","t","s"," ","(","o","p","t","i","o","n","a","l",")",",",
      " ","w","a","r","n","i","n","g","s"," ","(","o","p","t","i","o","n",
      "a","l",")","."," ","T","h","e"," ","J","S","O","N"," ","m","u","s",
      "t"," ","b","e"," ","t","h","e"," ","o","n","l","y"," ","c","o","n",
      "t","e","n","t"," ","i","n"," ","y","o","u","r"," ","r","e","s","p",
      "o","n","s","e","."," ","m","a","t","c","h","P","e","r","c","e","n",
      "t"," ","m","u","s","t"," ","b","e"," ","a","n"," ","i","n","t","e",
      "g","e","r"," ","f","r","o","m"," ","0"," ","t","o"," ","1","0","0",
      "."," ","m","a","t","c","h","e","d","S","k","i","l","l","s"," ","a",
      "n","d"," ","m","i","s","s","i","n","g","S","k","i","l","l","s"," ",
      "m","u","s","t"," ","b","e"," ","a","r","r","a","y","s"," ","o","f",
      " ","s","t","r","i","n","g","s","."," ","h","i","g","h","l","i","g",
      "h","t","s"," ","(","o","p","t","i","o","n","a","l",")"," ","c","a",
      "n"," ","i","n","c","l","u","d","e"," ","j","d","M","a","t","c","h",
      "e","s"," ","a","n","d"," ","r","e","s","u","m","e","M","a","t","c",
      "h","e","s"," ","e","a","c","h"," ","b","e","i","n","g"," ","a","r",
      "r","a","y","s"," ","o","f"," ","o","b","j","e","c","t","s"," ","w",
      "i","t","h"," ","t","e","r","m"," ","a","n","d"," ","c","o","n","t",
      "e","x","t",".","\n","\n","J","D"," ","t","e","x","t"," ","(","s","t",
      "a","r","t",")",":","\n","\n","{","{","J","D","_","T","E","X","T","}",
      "}","\n","\n","R","e","s","u","m","e"," ","t","e","x","t"," ","(","s",
      "t","a","r","t",")",":","\n","\n","{","{","R","E","S","U","M","E","_",
      "T","E","X","T","}","}","\n","\n","I","n","s","t","r","u","c","t","i",
      "o","n","s",":","\n","\n","1","."," ","I","d","e","n","t","i","f","y",
      " ","s","k","i","l","l"," ","t","o","k","e","n","s"," ","a","n","d",
      " ","r","o","l","e"," ","r","e","q","u","i","r","e","m","e","n","t",
      "s"," ","f","r","o","m"," ","J","D",".","\n","2","."," ","F","i","n",
      "d"," ","w","h","i","c","h"," ","J","D"," ","s","k","i","l","l","s",
      "/","r","e","q","u","i","r","e","m","e","n","t","s"," ","a","r","e",
      " ","p","r","e","s","e","n","t"," ","i","n"," ","t","h","e"," ","r",
      "e","s","u","m","e"," ","(","m","a","t","c","h","e","d",")",","," ",
      "a","n","d"," ","w","h","i","c","h"," ","a","r","e"," ","n","o","t",
      " ","(","m","i","s","s","i","n","g",")",".","\n","3","."," ","C","o",
      "m","p","u","t","e"," ","m","a","t","c","h","P","e","r","c","e","n",
      "t"," ","a","s"," ","r","o","u","n","d","(","1","0","0"," ","*"," ",
      "m","a","t","c","h","e","d"," ","/"," ","(","m","a","t","c","h","e",
      "d"," ","+"," ","m","i","s","s","i","n","g",")",")","."," ","I","f",
      " ","m","i","s","s","i","n","g"," ","+"," ","m","a","t","c","h","e",
      "d"," ","="," ","0",","," ","s","e","t"," ","m","a","t","c","h","P",
      "e","r","c","e","n","t"," ","t","o"," ","0",".","\n","4","."," ","P",
      "r","o","v","i","d","e"," ","m","a","t","c","h","e","d","S","k","i",
      "l","l","s"," ","(","d","e","d","u","p","l","i","c","a","t","e","d",
      ")",","," ","a","n","d"," ","m","i","s","s","i","n","g","S","k","i",
      "l","l","s"," ","(","d","e","d","u","p","l","i","c","a","t","e","d",
      ")",".","\n","5","."," ","O","p","t","i","o","n","a","l","l","y"," ",
      "p","r","o","v","i","d","e"," ","h","i","g","h","l","i","g","h","t",
      "s",".","j","d","M","a","t","c","h","e","s"," ","a","n","d"," ","h",
      "i","g","h","l","i","g","h","t","s",".","r","e","s","u","m","e","M",
      "a","t","c","h","e","s"," ","w","h","e","r","e"," ","e","a","c","h",
      " ","h","i","g","h","l","i","g","h","t"," ","o","b","j","e","c","t",
      " ","c","o","n","t","a","i","n","s"," ","t","e","r","m"," ","a","n",
      "d"," ","a"," ","s","h","o","r","t"," ","c","o","n","t","e","x","t",
      " ","e","x","c","e","r","p","t"," ","s","h","o","w","i","n","g"," ",
      "t","h","e"," ","o","c","c","u","r","r","e","n","c","e",".","\n","6",
      "."," ","I","f"," ","y","o","u"," ","h","a","d"," ","t","o"," ","t",
      "r","u","n","c","a","t","e"," ","t","e","x","t",","," ","o","r"," ",
      "i","f"," ","t","h","e","r","e"," ","i","s"," ","a","m","b","i","g",
      "u","i","t","y",","," ","i","n","c","l","u","d","e"," ","a","n"," ",
      "e","n","t","r","y"," ","i","n"," ","w","a","r","n","i","n","g","s",
      ".","\n","\n","R","e","t","u","r","n"," ","E","X","A","C","T","L","Y",
      " ","o","n","e"," ","J","S","O","N"," ","o","b","j","e","c","t"," ",
      "a","n","d"," ","n","o","t","h","i","n","g"," ","e","l","s","e",".",
      "\n","\n","E","x","a","m","p","l","e"," ","o","u","t","p","u","t"," ",
      "f","o","r","m","a","t",":","\n","{","\n"," "," ","\"","m","a","t","c",
      "h","P","e","r","c","e","n","t","\"",":"," ","8","0",",","\n"," "," ",
      "\"","m","a","t","c","h","e","d","S","k","i","l","l","s","\"",":"," ",
      "[","\"","P","y","t","h","o","n","\"",","," ","\"","P","o","s","t","g",
      "r","e","S","Q","L","\"",","," ","\"","D","o","c","k","e","r","\"",",",
      " ","\"","R","e","d","i","s","\"","]",",","\n"," "," ","\"","m","i",
      "s","s","i","n","g","S","k","i","l","l","s","\"",":"," ","[","\"","F",
      "a","s","t","A","P","I","\"",","," ","\"","A","W","S","\"","]",",",
      "\n"," "," ","\"","h","i","g","h","l","i","g","h","t","s","\"",":"," ",
      "{","\n"," "," "," "," ","\"","j","d","M","a","t","c","h","e","s","\"",
      ":"," ","[","{","\"","t","e","r","m","\"",":","\"","P","y","t","h","o",
      "n","\"",",","\"","c","o","n","t","e","x","t","\"",":","\"","W","e",
      " ","n","e","e","d"," ","a"," ","B","a","c","k","e","n","d"," ","E",
      "n","g","i","n","e","e","r"," ","e","x","p","e","r","i","e","n","c",
      "e","d"," ","w","i","t","h"," ","P","y","t","h","o","n","\"","}","]",
      ",","\n"," "," "," "," ","\"","r","e","s","u","m","e","M","a","t","c",
      "h","e","s","\"",":"," ","[","{","\"","t","e","r","m","\"",":","\"",
      "P","y","t","h","o","n","\"",",","\"","c","o","n","t","e","x","t","\"",
      ":","\"","W","o","r","k","e","d"," ","o","n"," ","P","y","t","h","o",
      "n",","," ","D","j","a","n","g","o",",",".",".",".","\"","}","]","\n",
      " "," ","}","\n","}">>

\* the placeholders "{{JD_TEXT}}" and "{{RESUME_TEXT}}"
PH_JD_TEXT     == <<"{","{","J","D","_","T","E","X","T","}","}">>
PH_RESUME_TEXT == <<"{","{","R","E","S","U","M","E","_","T","E","X","T","}","}">>

max_jd_length     == 15000
max_resume_length == 15000

NOTE_head   == <<"\n","\n","N","o","t","e",":"," ">>
NOTE_jd     == <<"J","D"," ","t","e","x","t"," ","w","a","s"," ","t","r","u","n","c","a","t","e","d","."," ">>
NOTE_resume == <<"R","e","s","u","m","e"," ","t","e","x","t"," ","w","a","s"," ","t","r","u","n","c","a","t","e","d","."," ">>
NOTE_tail   == <<"P","l","e","a","s","e"," ","i","n","c","l","u","d","e"," ","t","h","i","s"," ","i","n"," ","w","a","r","n","i","n","g","s",".">>

\* lines 78-85: the note appended when a text was cut
truncation_note(jd_truncated, resume_truncated) ==
    IF jd_truncated \/ resume_truncated
    THEN NOTE_head \o (IF jd_truncated THEN NOTE_jd ELSE <<>>)
         \o (IF resume_truncated THEN NOTE_resume ELSE <<>>) \o NOTE_tail
    ELSE <<>>

\* a prompt builder whose note blames the job description for every cut
build_comparison_prompt_BlameJd(jd, resume) ==
    Replace(Replace(COMPARISON_PROMPT_TEMPLATE, PH_JD_TEXT,
                    Take(jd, max_jd_length)),
            PH_RESUME_TEXT, Take(resume, max_resume_length))
    \o truncation_note(Len(jd) > max_jd_length
                          \/ Len(resume) > max_resume_length,
                       FALSE)

\* build_comparison_prompt(jd_text, resume_text)
build_comparison_prompt(jd, resume) ==
    Replace(Replace(COMPARISON_PROMPT_TEMPLATE, PH_JD_TEXT,
                    Take(jd, max_jd_length)),
            PH_RESUME_TEXT, Take(resume, max_resume_length))
    \o truncation_note(Len(jd) > max_jd_length,
                       Len(resume) > max_resume_length)

-----
(* JSON values, as json.loads builds them.  A value is [t, v]: t is the      *)
(* Python type; None is JNull.  A dict is its items in insertion order.     *)
(* Floats are decimals without exponent, or one of NaN, Infinity,           *)
(* -Infinity; \u escapes and exponents are outside the model's alphabet.    *)

JNull        == [t |-> "null", v |-> 0]
JBool(b)     == [t |-> "bool", v |-> b]
JInt(n)      == [t |-> "int", v |-> n]
JFloat(k, neg, whole, frac) ==
    [t |-> "float", v |-> [kind |-> k, neg |-> neg, whole |-> whole, frac |-> frac]]
JStr(s)      == [t |-> "str", v |-> s]
JList(items) == [t |-> "list", v |-> items]
JDict(items) == [t |-> "dict", v |-> items]

\* d.get(key): the value, or JNull standing for the default
HasKey(d, key) == \E i \in 1..Len(d.v) : d.v[i].k = key

Get(d, key, default) ==
    IF HasKey(d, key)
    THEN d.v[CHOOSE i \in 1..Len(d.v) : d.v[i].k = key].val
    ELSE default

\* d[key] = val: a repeated key keeps its place and takes the last value
DictPut(items, key, val) ==
    IF \E i \in 1..Len(items) : items[i].k = key
    THEN [i \in 1..Len(items) |->
            IF items[i].k = key THEN [k |-> key, val |-> val] ELSE items[i]]
    ELSE Append(items, [k |-> key, val |-> val])

-----------------------------------------------------------------------------
(* json.loads *)

JsonWhitespace == {" ", "\t", "\n", "\r"}

\* control characters, rejected inside a string literal
ControlChars == {"\n", "\t", "\r", NUL}

ParseFail == [ok |-> FALSE, val |-> JNull, next |-> 0]
Parsed(val, next) == [ok |-> TRUE, val |-> val, next |-> next]

\* the first position >= i that holds no whitespace
RECURSIVE SkipWs(_, _)
SkipWs(s, i) ==
    IF i <= Len(s) /\ s[i] \in JsonWhitespace THEN SkipWs(s, i + 1) ELSE i

\* the last position of the run of digits that starts at i
RECURSIVE DigitRunEnd(_, _)
DigitRunEnd(s, i) ==
    IF i + 1 <= Len(s) /\ s[i + 1] \in Digits THEN DigitRunEnd(s, i + 1) ELSE i

Unescape(c) ==
    CASE c = "\"" -> "\"" [] c = "\\" -> "\\" [] c = "/" -> "/"
      [] c = "n" -> "\n" [] c = "t" -> "\t" [] c = "r" -> "\r"
      [] c = "b" -> BS [] c = "f" -> FF

\* scanstring: j is the position after the opening quote
RECURSIVE ScanString(_, _, _)
ScanString(s, j, acc) ==
    IF j > Len(s) THEN ParseFail
    ELSE IF s[j] = "\"" THEN Parsed(acc, j + 1)
    ELSE IF s[j] = "\\"
         THEN IF j + 1 <= Len(s) /\ s[j + 1] \in {"\"", "\\", "/", "n", "t", "r", "b", "f"}
              THEN ScanString(s, j + 2, Append(acc, Unescape(s[j + 1])))
              ELSE ParseFail
    ELSE IF s[j] \in ControlChars THEN ParseFail
    ELSE ScanString(s, j + 1, Append(acc, s[j]))

\* NUMBER_RE at position i: -?(0|[1-9]\d*)(\.\d+)?
ScanNumber(s, i) ==
    LET neg   == s[i] = "-"
        st    == IF neg THEN i + 1 ELSE i
        iend  == IF s[st] = "0" THEN st ELSE DigitRunEnd(s, st)
        whole == NatOfDigits(SubSeq(s, st, iend))
        hasFr == iend + 2 <= Len(s) /\ s[iend + 1] = "." /\ s[iend + 2] \in Digits
        fend  == DigitRunEnd(s, iend + 2)
    IN  IF st > Len(s) \/ s[st] \notin Digits THEN ParseFail
        ELSE IF hasFr
        THEN Parsed(JFloat("finite", neg, whole, SubSeq(s, iend + 2, fend)), fend + 1)
        ELSE Parsed(JInt(IF neg THEN -whole ELSE whole), iend + 1)

L_null     == <<"n", "u", "l", "l">>
L_true     == <<"t", "r", "u", "e">>
L_false    == <<"f", "a", "l", "s", "e">>
L_NaN      == <<"N", "a", "N">>
L_Infinity == <<"I", "n", "f", "i", "n", "i", "t", "y">>

RECURSIVE ParseValue(_, _)
RECURSIVE ParseMembers(_, _, _)
RECURSIVE ParseElements(_, _, _)

\* JSONObject, at the position j where a key must begin
ParseMembers(s, j, acc) ==
    IF j > Len(s) \/ s[j] # "\"" THEN ParseFail
    ELSE LET key == ScanString(s, j + 1, <<>>)
             c   == SkipWs(s, key.next)
             val == ParseValue(s, SkipWs(s, c + 1))
             e   == SkipWs(s, val.next)
         IN  IF ~key.ok \/ c > Len(s) \/ s[c] # ":" THEN ParseFail
             ELSE IF ~val.ok \/ e > Len(s) THEN ParseFail
             ELSE IF s[e] = "}" THEN Parsed(JDict(DictPut(acc, key.val, val.val)), e + 1)
             ELSE IF s[e] = ","
                  THEN ParseMembers(s, SkipWs(s, e + 1), DictPut(acc, key.val, val.val))
             ELSE ParseFail

\* JSONArray, at the position j where an element must begin
ParseElements(s, j, acc) ==
    LET val == ParseValue(s, j)
        e   == SkipWs(s, val.next)
    IN  IF ~val.ok \/ e > Len(s) THEN ParseFail
        ELSE IF s[e] = "]" THEN Parsed(JList(Append(acc, val.val)), e + 1)
        ELSE IF s[e] = "," THEN ParseElements(s, SkipWs(s, e + 1), Append(acc, val.val))
        ELSE ParseFail

\* scan_once(s, i)
ParseValue(s, i) ==
    IF i > Len(s) THEN ParseFail
    ELSE IF s[i] = "\""
         THEN LET r == ScanString(s, i + 1, <<>>)
              IN  IF r.ok THEN Parsed(JStr(r.val), r.next) ELSE ParseFail
    ELSE IF s[i] = "{"
         THEN LET j == SkipWs(s, i + 1)
              IN  IF j <= Len(s) /\ s[j] = "}" THEN Parsed(JDict(<<>>), j + 1)
                  ELSE ParseMembers(s, j, <<>>)
    ELSE IF s[i] = "["
         THEN LET j == SkipWs(s, i + 1)
              IN  IF j <= Len(s) /\ s[j] = "]" THEN Parsed(JList(<<>>), j + 1)
                  ELSE ParseElements(s, j, <<>>)
    ELSE IF OccursAt(s, L_null, i) THEN Parsed(JNull, i + 4)
    ELSE IF OccursAt(s, L_true, i) THEN Parsed(JBool(TRUE), i + 4)
    ELSE IF OccursAt(s, L_false, i) THEN Parsed(JBool(FALSE), i + 5)
    ELSE IF ScanNumber(s, i).ok THEN ScanNumber(s, i)
    ELSE IF OccursAt(s, L_NaN, i) THEN Parsed(JFloat("nan", FALSE, 0, <<>>), i + 3)
    ELSE IF OccursAt(s, L_Infinity, i) THEN Parsed(JFloat("inf", FALSE, 0, <<>>), i + 8)
    ELSE IF OccursAt(s, <<"-">> \o L_Infinity, i)
         THEN Parsed(JFloat("inf", TRUE, 0, <<>>), i + 9)
    ELSE ParseFail

\* json.loads(s): ok is FALSE where it raises JSONDecodeError
JsonLoads(s) ==
    LET r == ParseValue(s, SkipWs(s, 1))
    IN  IF r.ok /\ SkipWs(s, r.next) = Len(s) + 1 THEN r ELSE ParseFail

-----------------------------------------------------------------------------
(* openai_client.py: extract_json_from_text *)

\* the pattern \{[^{}]*(?:\{[^{}]*\}[^{}]*)*\} matched from an opening brace:
\* the position of the closing brace, or 0.  j is the next position to read,
\* outside (MatchOuter) or inside (MatchInner) a nested pair of braces.
RECURSIVE MatchOuter(_, _)
RECURSIVE MatchInner(_, _)
MatchOuter(s, j) ==
    LET b == FindFrom(s, {"{", "}"}, j)
    IN  IF b = 0 THEN 0
        ELSE IF s[b] = "}" THEN b
        ELSE MatchInner(s, b + 1)

MatchInner(s, j) ==
    LET b == FindFrom(s, {"{", "}"}, j)
    IN  IF b = 0 THEN 0
        ELSE IF s[b] = "}" THEN MatchOuter(s, b + 1)
        ELSE 0

\* re.findall(json_pattern, text): the non-overlapping matches, left to right
RECURSIVE FindAll(_, _)
FindAll(s, i) ==
    LET b == FindFrom(s, {"{"}, i)
    IN  IF b = 0 THEN <<>>
        ELSE IF MatchOuter(s, b + 1) # 0
             THEN <<SubSeq(s, b, MatchOuter(s, b + 1))>> \o FindAll(s, MatchOuter(s, b + 1) + 1)
        ELSE FindAll(s, b + 1)

\* text.find(c) and text.rfind(c), 0 for "not found"
Find(s, c) == FindFrom(s, {c}, 1)
RFind(s, c) ==
    IF \E j \in 1..Len(s) : s[j] = c
    THEN CHOOSE j \in 1..Len(s) : s[j] = c /\ \A k \in (j + 1)..Len(s) : s[k] # c
    ELSE 0

\* a recovery that tries the span from the first to the last brace before
\* the pattern matches
extract_json_from_text_SliceFirst(text) ==
    LET direct  == JsonLoads(text)
        matches == FindAll(text, 1)
        good    == {i \in 1..Len(matches) : JsonLoads(matches[i]).ok}
        first   == Find(text, "{")
        last    == RFind(text, "}")
        slice   == JsonLoads(SubSeq(text, first, last))
    IN  IF direct.ok THEN direct.val
        ELSE IF first # 0 /\ last # 0 /\ first < last /\ slice.ok THEN slice.val
        ELSE IF good # {} THEN JsonLoads(matches[Min(good)]).val
        ELSE JNull

\* extract_json_from_text(text): the parsed value; JNull is None
extract_json_from_text(text) ==
    LET direct  == JsonLoads(text)
        matches == FindAll(text, 1)
        good    == {i \in 1..Len(matches) : JsonLoads(matches[i]).ok}
        first   == Find(text, "{")
        last    == RFind(text, "}")
        slice   == JsonLoads(SubSeq(text, first, last))
    IN  IF direct.ok THEN direct.val
        ELSE IF good # {} THEN JsonLoads(matches[Min(good)]).val
        ELSE IF first # 0 /\ last # 0 /\ first < last /\ slice.ok THEN slice.val
        ELSE JNull

-----------------------------------------------------------------------------
(* Python's view of a JSON value: truth value, str(), repr(), int() *)

\* bool(x)
Truthy(x) ==
    CASE x.t = "null"  -> FALSE
      [] x.t = "bool"  -> x.v
      [] x.t = "int"   -> x.v # 0
      [] x.t = "float" -> ~(x.v.kind = "finite" /\ x.v.whole = 0
                            /\ \A i \in 1..Len(x.v.frac) : x.v.frac[i] = "0")
      [] OTHER         -> x.v # <<>>

\* ds without its trailing zeros
RECURSIVE DropTrailingZeros(_)
DropTrailingZeros(ds) ==
    IF ds # <<>> /\ ds[Len(ds)] = "0"
    THEN DropTrailingZeros(SubSeq(ds, 1, Len(ds) - 1)) ELSE ds

\* repr() of a float
FloatRepr(f) ==
    LET frac == DropTrailingZeros(f.frac)
    IN  (IF f.neg THEN <<"-">> ELSE <<>>) \o
        (CASE f.kind = "nan" -> <<"n", "a", "n">>
           [] f.kind = "inf" -> <<"i", "n", "f">>
           [] OTHER -> DigitsOfNat(f.whole) \o <<".">>
                       \o (IF frac = <<>> THEN <<"0">> ELSE frac))

\* repr() of a str
ReprChar(c, quote) ==
    CASE c = "\\" -> <<"\\", "\\">>
      [] c = "\n" -> <<"\\", "n">>
      [] c = "\t" -> <<"\\", "t">>
      [] c = "\r" -> <<"\\", "r">>
      [] c = NUL  -> <<"\\", "x", "0", "0">>
      [] c = BS   -> <<"\\", "x", "0", "8">>
      [] c = FF   -> <<"\\", "x", "0", "c">>
      [] c = quote -> <<"\\", c>>
      [] OTHER    -> <<c>>

RECURSIVE Concat(_)
Concat(parts) == IF parts = <<>> THEN <<>> ELSE Head(parts) \o Concat(Tail(parts))

StrRepr(s) ==
    LET hasSingle == \E i \in 1..Len(s) : s[i] = "'"
        hasDouble == \E i \in 1..Len(s) : s[i] = "\""
        quote     == IF hasSingle /\ ~hasDouble THEN "\"" ELSE "'"
    IN  <<quote>> \o Concat([i \in 1..Len(s) |-> ReprChar(s[i], quote)]) \o <<quote>>

RECURSIVE Str(_)
RECURSIVE Repr(_)

\* str(x)
Str(x) ==
    CASE x.t = "str"   -> x.v
      [] x.t = "null"  -> <<"N", "o", "n", "e">>
      [] x.t = "bool"  -> IF x.v THEN <<"T", "r", "u", "e">> ELSE <<"F", "a", "l", "s", "e">>
      [] x.t = "int"   -> IntToText(x.v)
      [] x.t = "float" -> FloatRepr(x.v)
      [] x.t = "list"  ->
            <<"[">> \o Join([i \in 1..Len(x.v) |-> Repr(x.v[i])], <<",", " ">>) \o <<"]">>
      [] x.t = "dict"  ->
            <<"{">> \o Join([i \in 1..Len(x.v) |->
                                StrRepr(x.v[i].k) \o <<":", " ">> \o Repr(x.v[i].val)],
                            <<",", " ">>) \o <<"}">>

\* repr(x)
Repr(x) == IF x.t = "str" THEN StrRepr(x.v) ELSE Str(x)

\* isinstance(x, (int, float)): bool is a subclass of int
IsNumber(x) == x.t \in {"int", "float", "bool"}

\* int(x) of a number raises for nan and the infinities
IntRaises(x) == x.t = "float" /\ x.v.kind # "finite"

IntOf(x) ==
    CASE x.t = "int"  -> x.v
      [] x.t = "bool" -> IF x.v THEN 1 ELSE 0
      [] OTHER        -> IF x.v.neg THEN -x.v.whole ELSE x.v.whole

\* the quotient cut down instead of rounded
RoundDiv_Down(n, d) == n \div d

\* round(n / d) for n >= 0, d > 0: halves go to the even neighbour
RoundDiv(n, d) ==
    LET q == n \div d
        r == n % d
    IN  IF 2 * r < d THEN q
        ELSE IF 2 * r > d THEN q + 1
        ELSE IF q % 2 = 0 THEN q ELSE q + 1

-----------------------------------------------------------------------------
(* openai_client.py: validate_and_coerce_response *)

K_matchedSkills == <<"m","a","t","c","h","e","d","S","k","i","l","l","s">>
K_missingSkills == <<"m","i","s","s","i","n","g","S","k","i","l","l","s">>
K_matchPercent  == <<"m","a","t","c","h","P","e","r","c","e","n","t">>
K_highlights    == <<"h","i","g","h","l","i","g","h","t","s">>
K_jdMatches     == <<"j","d","M","a","t","c","h","e","s">>
K_resumeMatches == <<"r","e","s","u","m","e","M","a","t","c","h","e","s">>
K_term          == <<"t","e","r","m">>
K_context       == <<"c","o","n","t","e","x","t">>
K_warnings      == <<"w","a","r","n","i","n","g","s">>

MAX_HIGHLIGHTS    == 10
MAX_TERM_LEN      == 100
MAX_CONTEXT_LEN   == 500
MAX_WARNING_LEN   == 500
MAX_MODEL_WARNINGS == 5

\* an Optional[List]: None, or the list `items`
NoList == [some |-> FALSE, items |-> <<>>]
SomeList(items) == [some |-> TRUE, items |-> items]
NoneIfEmpty(items) == IF items = <<>> THEN NoList ELSE SomeList(items)

NoHighlights == [some |-> FALSE, jdMatches |-> NoList, resumeMatches |-> NoList]

\* skills compared without regard to letter case
CoerceSkills_IgnoreCase(x) ==
    IF x.t # "list" THEN {}
    ELSE {Lower(Str(x.v[i])) : i \in {j \in 1..Len(x.v) : Truthy(x.v[j])}}

\* list(set(str(s) for s in skills if s)); the order of the list is that of
\* a set of strings, so the result is kept as the set
CoerceSkills(x) ==
    IF x.t # "list" THEN {}
    ELSE {Str(x.v[i]) : i \in {j \in 1..Len(x.v) : Truthy(x.v[j])}}

\* a highlight validation that drops the invalid items before it counts
validate_highlights_FilterFirst(items) ==
    LET valid == SelectSeq(items, LAMBDA it :
                    it.t = "dict" /\ HasKey(it, K_term) /\ HasKey(it, K_context))
        head  == Take(valid, MAX_HIGHLIGHTS)
    IN  NoneIfEmpty([i \in 1..Len(head) |->
            [term    |-> Take(Str(Get(head[i], K_term, JNull)), MAX_TERM_LEN),
             context |-> Take(Str(Get(head[i], K_context, JNull)), MAX_CONTEXT_LEN)]])

\* validate_highlights(items)
validate_highlights(items) ==
    LET head  == Take(items, MAX_HIGHLIGHTS)
        valid == SelectSeq(head, LAMBDA it :
                    it.t = "dict" /\ HasKey(it, K_term) /\ HasKey(it, K_context))
    IN  NoneIfEmpty([i \in 1..Len(valid) |->
            [term    |-> Take(Str(Get(valid[i], K_term, JNull)), MAX_TERM_LEN),
             context |-> Take(Str(Get(valid[i], K_context, JNull)), MAX_CONTEXT_LEN)]])

\* a highlights coercion that keeps a sub-list without valid items as an
\* empty list
CoerceHighlights_KeepEmpty(data) ==
    LET h  == Get(data, K_highlights, JNull)
        jd == Get(h, K_jdMatches, JList(<<>>))
        rs == Get(h, K_resumeMatches, JList(<<>>))
        vjd == IF jd.t = "list" THEN SomeList(validate_highlights(jd.v).items) ELSE NoList
        vrs == IF rs.t = "list" THEN SomeList(validate_highlights(rs.v).items) ELSE NoList
    IN  IF h.t # "dict" THEN NoHighlights
        ELSE IF vjd.items # <<>> \/ vrs.items # <<>>
             THEN [some |-> TRUE, jdMatches |-> vjd, resumeMatches |-> vrs]
             ELSE NoHighlights

\* lines 170-198
CoerceHighlights(data) ==
    LET h  == Get(data, K_highlights, JNull)
        jd == Get(h, K_jdMatches, JList(<<>>))
        rs == Get(h, K_resumeMatches, JList(<<>>))
        vjd == IF jd.t = "list" THEN validate_highlights(jd.v) ELSE NoList
        vrs == IF rs.t = "list" THEN validate_highlights(rs.v) ELSE NoList
    IN  IF h.t # "dict" THEN NoHighlights
        ELSE IF vjd.some \/ vrs.some
             THEN [some |-> TRUE, jdMatches |-> vjd, resumeMatches |-> vrs]
             ELSE NoHighlights

\* a warnings coercion that cuts the list before it drops the empty entries
CoerceWarnings_CutFirst(data) ==
    LET w    == Get(data, K_warnings, JList(<<>>))
        kept == IF w.t # "list" THEN <<>>
                ELSE SelectSeq(Take(w.v, MAX_MODEL_WARNINGS), Truthy)
    IN  [i \in 1..Len(kept) |-> Take(Str(kept[i]), MAX_WARNING_LEN)]

\* lines 200-204
CoerceWarnings(data) ==
    LET w    == Get(data, K_warnings, JList(<<>>))
        kept == IF w.t # "list" THEN <<>> ELSE SelectSeq(w.v, Truthy)
    IN  Take([i \in 1..Len(kept) |-> Take(Str(kept[i]), MAX_WARNING_LEN)],
             MAX_MODEL_WARNINGS)

\* CompareResponseModel(...)
CompareResponseModel(percent, matched, missing, highlights, warns) ==
    [matchPercent  |-> percent,
     matchedSkills |-> matched,
     missingSkills |-> missing,
     highlights    |-> highlights,
     warnings      |-> warns]

NoResult == CompareResponseModel(0, {}, {}, NoHighlights, NoList)

\* str(e) of the AttributeError raised by data.get on a value that is no dict
NoGetAttribute(x) ==
    <<"'">> \o (CASE x.t = "list" -> <<"l", "i", "s", "t">>
                  [] x.t = "str" -> <<"s", "t", "r">>
                  [] x.t = "int" -> <<"i", "n", "t">>
                  [] x.t = "float" -> <<"f", "l", "o", "a", "t">>
                  [] x.t = "bool" -> <<"b", "o", "o", "l">>
                  [] OTHER -> <<"N", "o", "n", "e", "T", "y", "p", "e">>)
    \o <<"'"," ","o","b","j","e","c","t"," ","h","a","s"," ","n","o"," ",
          "a","t","t","r","i","b","u","t","e"," ","'","g","e","t","'">>

\* str(e) of the error raised by int() on a float that is not finite
IntErrorText(x) ==
    IF x.v.kind = "nan" THEN <<"c","a","n","n","o","t"," ","c","o","n","v","e","r","t"," ","f",
          "l","o","a","t"," ","N","a","N"," ","t","o"," ","i","n","t","e",
          "g","e","r">>
    ELSE <<"c","a","n","n","o","t"," ","c","o","n","v","e","r","t"," ","f",
          "l","o","a","t"," ","i","n","f","i","n","i","t","y"," ","t","o",
          " ","i","n","t","e","g","e","r">>

\* validate_and_coerce_response(data): raised is TRUE where it raises
validate_and_coerce_response(data) ==
    LET matched == CoerceSkills(Get(data, K_matchedSkills, JList(<<>>)))
        missing == CoerceSkills(Get(data, K_missingSkills, JList(<<>>)))
        given   == Get(data, K_matchPercent, JNull)
        total   == Cardinality(matched) + Cardinality(missing)
        percent == IF IsNumber(given) THEN IntOf(given)
                   ELSE IF total > 0 THEN RoundDiv(100 * Cardinality(matched), total)
                   ELSE 0
        clamped == IF percent < 0 THEN 0 ELSE IF percent > 100 THEN 100 ELSE percent
    IN  IF data.t # "dict"
        THEN [raised |-> TRUE, msg |-> NoGetAttribute(data), result |-> NoResult]
        ELSE IF IsNumber(given) /\ IntRaises(given)
        THEN [raised |-> TRUE, msg |-> IntErrorText(given), result |-> NoResult]
        ELSE [raised |-> FALSE, msg |-> <<>>,
              result |-> CompareResponseModel(clamped, matched, missing,
                            CoerceHighlights(data), NoneIfEmpty(CoerceWarnings(data)))]

-----------------------------------------------------------------------------
(* openai_client.py: call_openai_completions, after the endpoint answered *)

PREVIEW_LEN == 200

MSG_invalid_json == <<"M","o","d","e","l"," ","r","e","t","u","r","n","e",
                      "d"," ","i","n","v","a","l","i","d"," ","J","S","O",
                      "N"," ","r","e","s","p","o","n","s","e">>

\* f"Response preview: {preview}..."
MSG_preview(preview) == <<"R","e","s","p","o","n","s","e"," ","p","r","e","v","i","e","w",":"," ">> \o preview \o <<".", ".", ".">>

\* a fallback whose preview is the whole reply
FallbackResult_WholeReply(completion_text) ==
    CompareResponseModel(0, {}, {}, NoHighlights,
        SomeList(<<MSG_invalid_json, MSG_preview(completion_text)>>))

\* the fallback CompareResponseModel of lines 296-305
FallbackResult(completion_text) ==
    CompareResponseModel(0, {}, {}, NoHighlights,
        SomeList(<<MSG_invalid_json,
                   MSG_preview(Take(completion_text, PREVIEW_LEN))>>))

\* What the endpoint call came to: a timeout, an HTTP error status, a
\* connection failure, or a response body whose choices[i].text are `choices`
Timeout          == [kind |-> "timeout", status |-> 0, choices |-> <<>>]
HttpError(code)  == [kind |-> "http_error", status |-> code, choices |-> <<>>]
ConnectError     == [kind |-> "connect_error", status |-> 0, choices |-> <<>>]
Answer(choices)  == [kind |-> "answer", status |-> 200, choices |-> choices]
NoAnswer         == [kind |-> "none", status |-> 0, choices |-> <<>>]

\* an endpoint call whose transport failures end in the fallback result
CompletionOutcome_SwallowFailure(o) ==
    LET completion_text == Strip(o.choices[1])
        parsed_json     == extract_json_from_text(completion_text)
        coerced         == validate_and_coerce_response(parsed_json)
        fallback        == [raised |-> FALSE, msg |-> <<>>,
                            result |-> FallbackResult_WholeReply(<<>>)]
    IN  IF o.kind # "answer" \/ o.choices = <<>> \/ completion_text = <<>>
        THEN fallback
        ELSE IF parsed_json.t = "null" \/ coerced.raised
        THEN fallback
        ELSE [raised |-> FALSE, msg |-> <<>>, result |-> coerced.result]

\* call_openai_completions raises Exception(msg)
Fails(msg) == [raised |-> TRUE, msg |-> msg, result |-> NoResult]

\* lines 307-315: the coerced result is returned, or the failure of the
\* coercion is raised
CheckCoerced(coerced) ==
    IF coerced.raised
    THEN Fails(<<"F","a","i","l","e","d"," ","t","o"," ","v","a","l",
                 "i","d","a","t","e"," ","m","o","d","e","l"," ","r",
                 "e","s","p","o","n","s","e",":"," ">> \o coerced.msg)
    ELSE [raised |-> FALSE, msg |-> <<>>, result |-> coerced.result]

\* lines 290-315: the fallback when no JSON was recovered, else the coercion
CheckParsed(completion_text, parsed_json) ==
    IF parsed_json.t = "null"
    THEN [raised |-> FALSE, msg |-> <<>>, result |-> FallbackResult(completion_text)]
    ELSE CheckCoerced(validate_and_coerce_response(parsed_json))

\* lines 279-291: an empty completion text is an invalid response
CheckText(completion_text) ==
    IF completion_text = <<>>
    THEN Fails(<<"I","n","v","a","l","i","d"," ","r","e","s","p","o",
                 "n","s","e"," ","s","t","r","u","c","t","u","r","e",
                 " ","f","r","o","m"," ","O","p","e","n","A","I">>)
    ELSE CheckParsed(completion_text, extract_json_from_text(completion_text))

\* lines 251-315: [raised, msg, result]
CompletionOutcome(o) ==
    CASE o.kind = "timeout" ->
            Fails(<<"O","p","e","n","A","I"," ","A","P","I"," ","r","e",
                    "q","u","e","s","t"," ","t","i","m","e","d"," ","o",
                    "u","t">>)
      [] o.kind = "http_error" ->
            Fails(<<"O","p","e","n","A","I"," ","A","P","I"," ","e","r",
                    "r","o","r",":"," ">> \o IntToText(o.status))
      [] o.kind = "connect_error" ->
            Fails(<<"F","a","i","l","e","d"," ","t","o"," ","c","a","l",
                    "l"," ","O","p","e","n","A","I"," ","A","P","I",":"," ">>
                  \o LibraryError)
      [] OTHER ->
            IF o.choices = <<>>
            THEN CheckText(<<>>)
            ELSE CheckText(Strip(o.choices[1]))

-----------------------------------------------------------------------------
(* main.py: compare *)

MSG_both == <<"B","o","t","h"," ","j","d","_","f","i","l","e"," ",
                      "a","n","d"," ","j","d","_","t","e","x","t"," ","p",
                      "r","o","v","i","d","e","d",";"," ","u","s","i","n",
                      "g"," ","j","d","_","f","i","l","e"," ","c","o","n",
                      "t","e","n","t">>

MSG_jd_error == <<"J","D"," ","f","i","l","e"," ","e","x","t","r","a",
                      "c","t","i","o","n"," ","e","r","r","o","r",","," ",
                      "u","s","i","n","g"," ","j","d","_","t","e","x","t",
                      " ","i","n","s","t","e","a","d">>

MSG_jd_failed(msg) ==
    <<"J","D"," ","f","i","l","e"," ","e","x","t","r","a",
                      "c","t","i","o","n"," ","f","a","i","l","e","d"," ","(">> \o msg \o <<")",","," ","u","s","i","n","g"," ","j","d","_","t",
                      "e","x","t"," ","i","n","s","t","e","a","d">>

DETAIL_resume_required == <<"r","e","s","u","m","e","_","f","i","l","e"," ","i",
                      "s"," ","r","e","q","u","i","r","e","d">>

DETAIL_jd_required == <<"A","t"," ","l","e","a","s","t"," ","o","n","e"," ",
                      "o","f"," ","j","d","_","f","i","l","e"," ","o","r",
                      " ","j","d","_","t","e","x","t"," ","m","u","s","t",
                      " ","b","e"," ","p","r","o","v","i","d","e","d">>

DETAIL_jd_text_short == <<"j","d","_","t","e","x","t"," ","i","s"," ","t","o",
                      "o"," ","s","h","o","r","t"," ","(","m","i","n","i",
                      "m","u","m"," ","1","0"," ","c","h","a","r","a","c",
                      "t","e","r","s",")">>

DETAIL_jd_empty == <<"J","o","b"," ","d","e","s","c","r","i","p","t","i",
                      "o","n"," ","t","e","x","t"," ","i","s"," ","t","o",
                      "o"," ","s","h","o","r","t"," ","o","r"," ","e","m",
                      "p","t","y">>

DETAIL_no_key == <<"O","P","E","N","A","I","_","A","P","I","_","K","E",
                      "Y"," ","i","s"," ","n","o","t"," ","c","o","n","f",
                      "i","g","u","r","e","d">>

NoResponse == [status |-> 0, detail |-> <<>>, body |-> NoResult]
HTTPException(status, detail) == [status |-> status, detail |-> detail, body |-> NoResult]
Ok200(body) == [status |-> 200, detail |-> <<>>, body |-> body]

\* `if jd_text`: given and not empty
HasJdText(r) == r.jd_text.some /\ r.jd_text.text # <<>>

\* `if jd_file and jd_file.filename`
HasJdFile(r) == r.jd_file.some /\ r.jd_file.file.filename # <<>>

\* a merge that replaces the result's warnings by the accumulated ones
MergeWarnings_Overwrite(res, warns) ==
    IF warns = <<>> THEN res ELSE [res EXCEPT !.warnings = SomeList(warns)]

\* a merge that builds a second result, keeping only the percentage
MergeWarnings_Rebuild(res, warns) ==
    IF warns = <<>> THEN res
    ELSE CompareResponseModel(res.matchPercent, {}, {}, NoHighlights,
                              SomeList((IF res.warnings.some THEN res.warnings.items ELSE <<>>) \o warns))

\* lines 194-199: the accumulated warnings are added to the result
MergeWarnings(res, warns) ==
    IF warns = <<>> THEN res
    ELSE IF res.warnings.some /\ res.warnings.items # <<>>
    THEN [res EXCEPT !.warnings.items = @ \o warns]
    ELSE [res EXCEPT !.warnings = SomeList(warns)]

\* the entries a call of extract_text_from_file adds to the history
Calls(out, who) == [i \in 1..Len(out.calls) |-> [op |-> out.calls[i], who |-> who]]

-----------------------------------------------------------------------------
(* The requests and endpoint answers the model enumerates *)

TEXT_resume == <<"P","y","t","h","o","n"," "," ","d","e","v","e","l",
                      "o","p","e","r",NUL," ","w","i","t","h"," ","5"," ",
                      "y","e","a","r","s","\n","\n","\n","\n","e","x","p",
                      "e","r","i","e","n","c","e"," ">>
TEXT_short  == <<"h","i">>
TEXT_long   == Rep("a", MAX_TEXT_LENGTH) \o <<" ", "b">>
TEXT_page1  == <<"B","a","c","k","e","n","d"," ","e","n","g","i","n",
                      "e","e","r",","," ","P","y","t","h","o","n"," ","5">>
TEXT_page2  == <<"D","o","c","k","e","r",","," ","R","e","d","i","s",
                      ","," ","P","o","s","t","g","r","e","S","Q","L",".">>
TEXT_binary == <<"%","P","D","F","-","1",".","4"," ",NUL,NUL," ","o",
                      "b","j">>

Doc(pypdf, pdfminer, docx, utf8, latin1) ==
    [pypdf |-> pypdf, pdfminer |-> pdfminer, docx |-> docx, utf8 |-> utf8,
     latin1 |-> latin1]

\* plain text files: a good one, one longer than MAX_TEXT_LENGTH, a short
\* one, one that is not UTF-8
PlainDoc(text) == Doc(PypdfFails, PdfminerFails, DocxFails, Utf8Text(text), text)
DOC_latin1     == Doc(PypdfFails, PdfminerFails, DocxFails, Utf8Fails, TEXT_resume)

\* PDF files: readable by pypdf (one page fails), readable by pdfminer only,
\* without any text, unreadable
DOC_pdf        == Doc(PypdfPages(<<Page(TEXT_page1), PageFails, Page(TEXT_page2)>>),
                      PdfminerText(TEXT_page1 \o TEXT_page2), DocxFails,
                      Utf8Fails, TEXT_binary)
DOC_pdf_scan   == Doc(PypdfPages(<<Page(TEXT_short), Page(<<>>)>>),
                      PdfminerText(TEXT_resume), DocxFails, Utf8Fails, TEXT_binary)
DOC_pdf_empty  == Doc(PypdfPages(<<Page(<<>>)>>), PdfminerText(<<>>), DocxFails,
                      Utf8Fails, TEXT_binary)
DOC_pdf_bad    == Doc(PypdfFails, PdfminerFails, DocxFails, Utf8Fails, TEXT_binary)

\* Word files: a good one, one with too little text
DOC_docx       == Doc(PypdfFails, PdfminerFails,
                      DocxParts(<<TEXT_page1, <<" ">>, TEXT_short>>, <<TEXT_short, <<>>>>),
                      Utf8Fails, TEXT_binary)
DOC_docx_short == Doc(PypdfFails, PdfminerFails, DocxParts(<<TEXT_short>>, <<>>),
                      Utf8Fails, TEXT_binary)

UploadFile(filename, content_type, size, doc) ==
    [filename |-> filename, content_type |-> content_type, size |-> size, doc |-> doc]

\* the length of an upload within the limit
SmallSize == 2048

FN_txt  == <<"a",".","t","x","t">>
FN_pdf  == <<"a",".","p","d","f">>
FN_PDF  == <<"A",".","P","D","F">>
FN_docx == <<"a",".","d","o","c","x">>
FN_doc  == <<"a",".","d","o","c">>
FN_jpg  == <<"a",".","j","p","g">>
CT_JPEG == <<"i","m","a","g","e","/","j","p","e","g">>

\* the resume uploads: every extractor with each way it can end, the
\* dispatch by content type and by extension, and the sizes around the limit
Files ==
    {UploadFile(FN_txt, CT_TXT, SmallSize, PlainDoc(TEXT_resume)),
     UploadFile(FN_txt, CT_TXT, SmallSize, PlainDoc(TEXT_long)),
     UploadFile(FN_txt, CT_TXT, SmallSize, PlainDoc(TEXT_short)),
     UploadFile(FN_txt, CT_TXT, SmallSize, DOC_latin1),
     UploadFile(FN_txt, CT_TXT, MAX_FILE_SIZE, PlainDoc(TEXT_resume)),
     UploadFile(FN_txt, CT_TXT, MAX_FILE_SIZE + 1, PlainDoc(TEXT_resume)),
     UploadFile(FN_txt, <<>>, SmallSize, PlainDoc(TEXT_resume)),
     UploadFile(FN_jpg, CT_TXT, SmallSize, PlainDoc(TEXT_resume)),
     UploadFile(FN_jpg, CT_JPEG, SmallSize, PlainDoc(TEXT_resume)),
     UploadFile(FN_pdf, CT_TXT, SmallSize, PlainDoc(TEXT_resume)),
     UploadFile(<<>>, CT_TXT, SmallSize, PlainDoc(TEXT_resume)),
     UploadFile(FN_pdf, CT_PDF, SmallSize, DOC_pdf),
     UploadFile(FN_PDF, <<>>, SmallSize, DOC_pdf_scan),
     UploadFile(FN_pdf, CT_PDF, SmallSize, DOC_pdf_empty),
     UploadFile(FN_pdf, CT_PDF, SmallSize, DOC_pdf_bad),
     UploadFile(FN_pdf, CT_PDF, MAX_FILE_SIZE + 1, DOC_pdf),
     UploadFile(FN_docx, CT_DOCX, SmallSize, DOC_docx),
     UploadFile(FN_doc, CT_DOC, SmallSize, DOC_docx_short),
     UploadFile(FN_docx, <<>>, SmallSize, DOC_pdf_bad)}

\* the job-description uploads: one per way extraction can end
JdFiles ==
    {UploadFile(FN_txt, CT_TXT, SmallSize, PlainDoc(TEXT_resume)),
     UploadFile(FN_txt, CT_TXT, SmallSize, PlainDoc(TEXT_long)),
     UploadFile(FN_txt, CT_TXT, SmallSize, PlainDoc(TEXT_short)),
     UploadFile(FN_txt, CT_TXT, MAX_FILE_SIZE + 1, PlainDoc(TEXT_resume)),
     UploadFile(FN_jpg, CT_JPEG, SmallSize, PlainDoc(TEXT_resume)),
     UploadFile(FN_pdf, CT_PDF, SmallSize, DOC_pdf),
     UploadFile(FN_pdf, CT_PDF, SmallSize, DOC_pdf_bad),
     UploadFile(FN_docx, CT_DOCX, SmallSize, DOC_docx_short),
     UploadFile(<<>>, CT_TXT, SmallSize, PlainDoc(TEXT_resume))}

NoFile == [some |-> FALSE, file |-> UploadFile(<<>>, <<>>, 0, PlainDoc(<<>>))]
SomeFile(f) == [some |-> TRUE, file |-> f]

NoText == [some |-> FALSE, text |-> <<>>]
SomeText(t) == [some |-> TRUE, text |-> t]

JdTexts == {NoText, SomeText(<<>>), SomeText(TEXT_short), SomeText(Rep(" ", 12)),
            SomeText(<<"N","e","e","d"," ","P","y","t","h","o","n"," ","a",
                      "n","d"," ","A","W","S"," ","s","k","i","l","l","s">>),
            SomeText(<<" "," ","N","e","e","d",NUL," ","P","y","t","h","o",
                      "n","\n","\n","\n","\n","a","n","d"," "," ","A","W",
                      "S"," ","\n">>)}

Requests ==
    [resume_file : Files,
     jd_file     : {NoFile} \cup {SomeFile(f) : f \in JdFiles},
     jd_text     : JdTexts]

REPLY_sorry    == <<"S","o","r","r","y",","," ","I"," ","c","a","n","n",
                      "o","t"," ","h","e","l","p",".">>
REPLY_plain    ==
    <<"{","\"","m","a","t","c","h","P","e","r","c","e","n",
                      "t","\"",":"," ","5","0",","," ","\"","m","a","t","c",
                      "h","e","d","S","k","i","l","l","s","\"",":"," ","[",
                      "\"","P","y","t","h","o","n","\"","]",","," ","\"","m",
                      "i","s","s","i","n","g","S","k","i","l","l","s","\"",
                      ":"," ","[","\"","A","W","S","\"","]","}">>
REPLY_prose    ==
    <<"H","e","r","e"," ","y","o","u"," ","g","o",":","\n",
                      "{","\"","m","a","t","c","h","e","d","S","k","i","l",
                      "l","s","\"",":"," ","[","\"","a","\"",","," ","\"",
                      "b","\"",","," ","\"","a","\"","]",","," ","\"","w",
                      "a","r","n","i","n","g","s","\"",":"," ","[","\"","J",
                      "D"," ","i","s"," ","v","a","g","u","e","\"","]","}",
                      " ","B","y","e">>
REPLY_warnings ==
    <<"{","\"","m","a","t","c","h","P","e","r","c","e","n",
                      "t","\"",":"," ","1","2","0",","," ","\"","w","a","r",
                      "n","i","n","g","s","\"",":"," ","[","\"","w","1","\"",
                      ","," ","\"","w","2","\"",","," ","\"","\"",","," ",
                      "\"","w","3","\"",","," ","\"","w","4","\"",","," ",
                      "\"","w","5","\"",","," ","\"","w","6","\"","]","}">>
REPLY_nested   ==
    <<"{","\"","h","i","g","h","l","i","g","h","t","s","\"",
                      ":"," ","{","\"","j","d","M","a","t","c","h","e","s",
                      "\"",":"," ","[","{","\"","t","e","r","m","\"",":"," ",
                      "\"","a","\"",","," ","\"","c","o","n","t","e","x","t",
                      "\"",":"," ","\"","b","\"","}","]","}",","," ","\"",
                      "w","a","r","n","i","n","g","s","\"",":"," ","7","}">>
REPLY_list     == <<"[","1",","," ","2","]">>
REPLY_null     == <<" ","n","u","l","l">>
REPLY_nan      == <<"{","\"","m","a","t","c","h","P","e","r","c","e","n",
                      "t","\"",":"," ","N","a","N","}">>
REPLY_long     == <<"{">> \o Rep("x", PREVIEW_LEN + 5)

EndpointOutcomes ==
    {Timeout, HttpError(500), ConnectError, Answer(<<>>), Answer(<<<<" ", "\n">>>>)}
    \cup {Answer(<<t>>) : t \in {REPLY_sorry, REPLY_plain, REPLY_prose, REPLY_warnings,
                                 REPLY_nested, REPLY_list, REPLY_null, REPLY_nan,
                                 REPLY_long}}

-----------------------------------------------------------------------------
(* The compare coroutine *)

\* no function is called on its own during a compare request
NoArgs == [f |-> "none"]
NoReturn == [f |-> "none"]

\* the number of compare requests served at the same time
NumRequests == 2
RequestIds == 1..NumRequests

\* the locals of a compare coroutine before the request arrived
NoTask ==
    [pc |-> "idle",
     req |-> [resume_file |-> NoFile.file, jd_file |-> NoFile, jd_text |-> NoText],
     warnings |-> <<>>, resume_text |-> <<>>, jd_final_text |-> <<>>,
     prompt_args |-> [called |-> FALSE, jd_text |-> <<>>, resume_text |-> <<>>],
     endpoint |-> NoAnswer, response |-> NoResponse]
NoTasks == [i \in RequestIds |-> NoTask]

Init ==
    /\ pc = "idle"
    /\ apiKey \in BOOLEAN
    /\ req = [resume_file |-> NoFile.file, jd_file |-> NoFile, jd_text |-> NoText]
    /\ warnings = <<>>
    /\ resume_text = <<>>
    /\ jd_final_text = <<>>
    /\ prompt_args = [called |-> FALSE, jd_text |-> <<>>, resume_text |-> <<>>]
    /\ endpoint = NoAnswer
    /\ result = [constructed |-> FALSE, assembled |-> NoResult, now |-> NoResult]
    /\ response = NoResponse
    /\ log = <<>>
    /\ fn = "none"
    /\ fn_args = NoArgs
    /\ fn_result = NoReturn
    /\ tasks = NoTasks

\* the request ends with the HTTPException e
Fail(e) ==
    /\ pc' = "done"
    /\ response' = e

\* a validation that does not look at the job description
Validate_ResumeOnly(r) ==
    IF r.resume_file.filename = <<>>
    THEN HTTPException(400, DETAIL_resume_required)
    ELSE NoResponse

\* lines 106-118: the HTTPException the validation raises, NoResponse if none
Validate(r) ==
    IF r.resume_file.filename = <<>>
    THEN HTTPException(400, DETAIL_resume_required)
    ELSE IF ~r.jd_file.some /\ ~HasJdText(r)
    THEN HTTPException(400, DETAIL_jd_required)
    ELSE NoResponse

\* lines 100-118: the request arrives and is validated
Receive(r) ==
    /\ pc = "idle"
    /\ req' = r
    /\ \E e \in {Validate(r)} :
           IF e # NoResponse
           THEN Fail(e)
           ELSE pc' = "extract_resume" /\ UNCHANGED response
    /\ UNCHANGED <<apiKey, warnings, resume_text, jd_final_text, prompt_args,
                   endpoint, result, log>>
    /\ UNCHANGED <<fn_vars, tasks>>

\* every failed extraction of the resume reported with status 400
ResumeError_Always400(out) == HTTPException(400, out.msg)

\* lines 126-133: the HTTPException for a failed extraction of the resume
ResumeError(out) ==
    IF out.exc = "ValueError"
    THEN HTTPException(400, out.msg)
    ELSE HTTPException(500, <<"F","a","i","l","e","d"," ","t","o"," ","e","x","t",
                      "r","a","c","t"," ","r","e","s","u","m","e"," ","t",
                      "e","x","t",":"," ">> \o out.msg)

\* a resume extraction that goes on to the job description when it failed
ExtractResume_Continue ==
    /\ pc = "extract_resume"
    /\ \E out \in {extract_text_from_file(req.resume_file)} :
           /\ log' = log \o Calls(out, "resume")
           /\ resume_text' = out.text
           /\ warnings' = IF out.warning.some
                          THEN Append(warnings, out.warning.text)
                          ELSE warnings
           /\ pc' = "resolve_jd"
           /\ UNCHANGED response
    /\ UNCHANGED <<apiKey, req, jd_final_text, prompt_args, endpoint, result>>
    /\ UNCHANGED <<fn_vars, tasks>>

\* lines 120-133: the resume is read and extracted
ExtractResume ==
    /\ pc = "extract_resume"
    /\ \E out \in {extract_text_from_file(req.resume_file)} :
           /\ log' = log \o Calls(out, "resume")
           /\ IF out.ok
              THEN /\ resume_text' = out.text
                   /\ warnings' = IF out.warning.some
                                  THEN Append(warnings, out.warning.text)
                                  ELSE warnings
                   /\ pc' = "resolve_jd"
                   /\ UNCHANGED response
              ELSE /\ Fail(ResumeError(out))
                   /\ UNCHANGED <<resume_text, warnings>>
    /\ UNCHANGED <<apiKey, req, jd_final_text, prompt_args, endpoint, result>>
    /\ UNCHANGED <<fn_vars, tasks>>

\* What lines 136-175 come to: the HTTPException raised (NoResponse if
\* none), jd_final_text, and the warnings appended
JdRaises(e) == [raised |-> e, text |-> <<>>, warns |-> <<>>]
JdText(text, warns) == [raised |-> NoResponse, text |-> text, warns |-> warns]

\* the text preferred to the extracted file
JdFromFile_PreferText(r, out) ==
    IF HasJdText(r)
    THEN JdText(r.jd_text.text, <<MSG_both>>)
    ELSE JdText(out.text, IF out.warning.some THEN <<out.warning.text>> ELSE <<>>)

\* lines 141-148: the file was extracted
JdFromFile(r, out) ==
    JdText(out.text,
           (IF out.warning.some THEN <<out.warning.text>> ELSE <<>>)
           \o (IF HasJdText(r) THEN <<MSG_both>> ELSE <<>>))

\* a failed file ends the request whether or not jd_text was given
JdFileFailed_NoFallback(r, out) ==
    JdRaises(HTTPException(IF out.exc = "ValueError" THEN 400 ELSE 500, out.msg))

\* lines 150-167: extracting the file raised
JdFileFailed(r, out) ==
    IF out.exc = "ValueError"
    THEN IF HasJdText(r)
         THEN JdText(r.jd_text.text, <<MSG_jd_failed(out.msg)>>)
         ELSE JdRaises(HTTPException(400, out.msg))
    ELSE IF HasJdText(r)
         THEN JdText(r.jd_text.text, <<MSG_jd_error>>)
         ELSE JdRaises(HTTPException(500, <<"F","a","i","l","e","d"," ","t","o"," ","e","x","t",
                      "r","a","c","t"," ","J","D"," ","t","e","x","t",":"," ">> \o out.msg))

\* lines 169-175: no file, the text is used
JdFromText(r) ==
    IF Len(Strip(r.jd_text.text)) < MIN_TEXT_CHARS
    THEN JdRaises(HTTPException(400, DETAIL_jd_text_short))
    ELSE JdText(Strip(r.jd_text.text), <<>>)

\* lines 136-175: the branch taken for the request r, `out` being what
\* extracting the JD file comes to
JdBranch(r, out) ==
    IF HasJdFile(r)
    THEN IF out.ok THEN JdFromFile(r, out) ELSE JdFileFailed(r, out)
    ELSE IF HasJdText(r) THEN JdFromText(r)
    ELSE JdText(<<>>, <<>>)

\* lines 135-182: the job description is taken from the file or the text
ResolveJd ==
    /\ pc = "resolve_jd"
    /\ \E out \in {extract_text_from_file(req.jd_file.file)} :
       \E branch \in {JdBranch(req, out)} :
           /\ log' = IF HasJdFile(req) THEN log \o Calls(out, "jd") ELSE log
           /\ warnings' = warnings \o branch.warns
           /\ jd_final_text' = branch.text
           /\ IF branch.raised # NoResponse
              THEN Fail(branch.raised)
              ELSE IF branch.text = <<>> \/ Len(Strip(branch.text)) < MIN_TEXT_CHARS
              THEN Fail(HTTPException(400, DETAIL_jd_empty))
              ELSE pc' = "call_model" /\ UNCHANGED response
    /\ UNCHANGED <<apiKey, req, resume_text, prompt_args, endpoint, result>>
    /\ UNCHANGED <<fn_vars, tasks>>

\* main.py line 192, openai_client.py lines 232-257: the completions
\* endpoint is called with the prompt built from the two texts
CallModel ==
    /\ pc = "call_model"
    /\ IF ~apiKey
       THEN /\ Fail(HTTPException(400, DETAIL_no_key))
            /\ UNCHANGED <<prompt_args, log>>
       ELSE /\ prompt_args' = [called |-> TRUE, jd_text |-> jd_final_text,
                               resume_text |-> resume_text]
            /\ log' = Append(log, [op |-> "post", who |-> "endpoint"])
            /\ pc' = "await_model"
            /\ UNCHANGED response
    /\ UNCHANGED <<apiKey, req, warnings, resume_text, jd_final_text, endpoint, result>>
    /\ UNCHANGED <<fn_vars, tasks>>

\* openai_client.py lines 258-315, main.py lines 194-216: the endpoint
\* answers o; the reply is recovered and coerced, the warnings are merged
\* and the request ends
ModelAnswers(o) ==
    /\ pc = "await_model"
    /\ endpoint' = o
    /\ \E out \in {CompletionOutcome(o)} :
           IF out.raised
           THEN /\ Fail(HTTPException(502, <<"O","p","e","n","A","I"," ","A","P","I"," ","e","r",
                      "r","o","r",":"," ">> \o out.msg))
                /\ UNCHANGED <<result, log>>
           ELSE /\ result' = [constructed |-> TRUE, assembled |-> out.result,
                              now |-> MergeWarnings(out.result, warnings)]
                /\ log' = Append(log, [op |-> "CompareResponseModel", who |-> "compare"])
                /\ response' = Ok200(MergeWarnings(out.result, warnings))
                /\ pc' = "done"
    /\ UNCHANGED <<apiKey, req, warnings, resume_text, jd_final_text, prompt_args>>
    /\ UNCHANGED <<fn_vars, tasks>>

Next ==
    \/ \E r \in Requests : Receive(r)
    \/ ExtractResume
    \/ ResolveJd
    \/ CallModel
    \/ \E o \in EndpointOutcomes : ModelAnswers(o)

Spec == Init /\ [][Next]_vars

-----------------------------------------------------------------------------
(* Functions called on their own: the arguments are drawn at the start and *)
(* one call is made with them.                                             *)

MaxInputLen == 5

\* all texts of at most n characters drawn from chars
Texts(chars, n) == UNION {[1..k -> chars] : k \in 0..n}

\* the characters the sanitizer treats differently: a letter, a blank, a
\* newline and the null character
SanitizeChars == {"a", " ", "\n", NUL}

\* longer texts: runs of 5 and 7 newlines inside a text, blanks around
\* newlines, a null character between blanks
SanitizeLongTexts ==
    {<<"a">> \o Rep("\n", 5) \o <<"b">>,
     <<"a">> \o Rep("\n", 7) \o <<"b">>,
     <<"a", " ", "\n", " ", "\n", "\t", "\n", " ", "b">>,
     <<" ", "a", " ", NUL, " ", "b", "\n", "\n", "\n", "\n", "c", " ">>}

SanitizeArgs ==
    {[f |-> "sanitize_text", text |-> t, max_length |-> n] :
        t \in Texts(SanitizeChars, MaxInputLen) \cup SanitizeLongTexts,
        n \in {0, 1, 2, 3, MaxInputLen}}

\* sanitize_text(text, max_length)
Call_sanitize_text ==
    /\ fn = "none"
    /\ fn_args.f = "sanitize_text"
    /\ fn' = "sanitize_text"
    /\ fn_result' = sanitize_text(fn_args.text, fn_args.max_length)
    /\ UNCHANGED <<fn_args, compare_vars, tasks>>

\* sanitize_text(text, max_length) called on the text it returned
Call_sanitize_text_again ==
    /\ fn = "sanitize_text"
    /\ fn' = "sanitize_text again"
    /\ fn_args' = [fn_args EXCEPT !.text = fn_result.text]
    /\ fn_result' = sanitize_text(fn_result.text, fn_args.max_length)
    /\ UNCHANGED <<compare_vars, tasks>>

\* values of the matchPercent entry: integers in and out of range,
\* fractional numbers, nan and the infinities (json.loads reads NaN,
\* Infinity and -Infinity), booleans, strings, null, a list, a mapping
PercentValues ==
    {JInt(0 - 5), JInt(0), JInt(50), JInt(100), JInt(250),
     JFloat("finite", FALSE, 72, <<"5">>), JFloat("finite", TRUE, 3, <<"7">>),
     JFloat("finite", FALSE, 150, <<"9">>),
     JFloat("nan", FALSE, 0, <<>>), JFloat("inf", FALSE, 0, <<>>),
     JFloat("inf", TRUE, 0, <<>>),
     JBool(TRUE), JBool(FALSE), JStr(<<"8", "5">>), JStr(<<>>), JNull,
     JList(<<JInt(50)>>), JDict(<<>>)}

SKILL_Python == <<"P","y","t","h","o","n">>
SKILL_python == <<"p","y","t","h","o","n">>

\* n different skill names
Skills(n) == [i \in 1..n |-> JStr(<<"s">> \o DigitsOfNat(i))]

\* values of a skills entry: not a list, empty, case variants with a
\* repeat, falsy elements between names, elements that are not strings,
\* and lists of 1, 3, 5 and 7 names
SkillValues ==
    {JStr(SKILL_Python), JInt(3), JNull, JList(<<>>),
     JList(<<JStr(SKILL_Python), JStr(SKILL_python), JStr(SKILL_Python)>>),
     JList(<<JStr(<<"a">>), JStr(<<>>), JNull, JInt(0), JBool(FALSE), JList(<<>>),
             JStr(<<"b">>)>>),
     JList(<<JInt(1), JBool(TRUE), JFloat("finite", FALSE, 2, <<"5">>),
             JList(<<JStr(<<"x">>)>>), JStr(<<"1">>)>>),
     JList(Skills(1)), JList(Skills(3)), JList(Skills(5)), JList(Skills(7))}

\* the entry key: v, or no entry
Entries(key, values) == {<<>>} \cup {<<[k |-> key, val |-> v]>> : v \in values}

ValidateArgs ==
    {[f |-> "validate_and_coerce_response", data |-> JDict(p \o m \o k)] :
        p \in Entries(K_matchPercent, PercentValues),
        m \in Entries(K_matchedSkills, SkillValues),
        k \in Entries(K_missingSkills, SkillValues)}

\* highlight items: valid ones with different terms, one with a term and a
\* context over their limits, one whose term and context are not strings,
\* and items that lack a key or are no mapping
HL_item(n) ==
    JDict(<<[k |-> K_term, val |-> JStr(<<"t">> \o DigitsOfNat(n))],
            [k |-> K_context, val |-> JStr(<<"c">> \o DigitsOfNat(n))]>>)
HL_items(n) == [i \in 1..n |-> HL_item(i)]
HL_long ==
    JDict(<<[k |-> K_term, val |-> JStr(Rep("t", MAX_TERM_LEN) \o <<"!">>)],
            [k |-> K_context, val |-> JStr(Rep("c", MAX_CONTEXT_LEN) \o <<"!">>)]>>)
HL_other ==
    JDict(<<[k |-> K_context, val |-> JNull],
            [k |-> <<"n">>, val |-> JInt(1)],
            [k |-> K_term, val |-> JInt(7)]>>)
HL_term_only    == JDict(<<[k |-> K_term, val |-> JStr(<<"t">>)]>>)
HL_context_only == JDict(<<[k |-> K_context, val |-> JStr(<<"c">>)]>>)

\* values of jdMatches and resumeMatches: not a list, empty, invalid items
\* only, 1, 10 and 11 valid items, invalid items before and between valid
\* ones, ten invalid items before a valid one
HighlightLists ==
    {JNull, JStr(<<"t">>), HL_item(1), JList(<<>>),
     JList(<<HL_term_only, HL_context_only, JStr(<<"t">>), JNull>>),
     JList(HL_items(1)), JList(<<HL_long, HL_other>>),
     JList(HL_items(MAX_HIGHLIGHTS)), JList(HL_items(MAX_HIGHLIGHTS + 1)),
     JList(<<JNull>> \o HL_items(MAX_HIGHLIGHTS)),
     JList(SubSeq(HL_items(12), 1, 5) \o <<JStr(<<"t">>), HL_term_only>>
           \o SubSeq(HL_items(12), 6, 12)),
     JList(Rep(JNull, MAX_HIGHLIGHTS) \o HL_items(1))}

\* values of the highlights entry
HighlightValues ==
    {JNull, JStr(<<"h">>), JInt(1), JBool(TRUE), JList(HL_items(1))}
    \cup {JDict(j \o r) : j \in Entries(K_jdMatches, HighlightLists),
                          r \in Entries(K_resumeMatches, HighlightLists)}

\* n different warnings
Warnings(n) == [i \in 1..n |-> JStr(<<"w">> \o DigitsOfNat(i))]

\* values of the warnings entry: not a list, empty, falsy elements only,
\* 1, 5 and 6 warnings, falsy elements before and between warnings, a warning
\* over the length limit, elements that are not strings
WarningValues ==
    {JNull, JStr(<<"w">>), JInt(1), JDict(<<[k |-> <<"w">>, val |-> JInt(1)]>>),
     JList(<<>>), JList(<<JStr(<<>>), JNull, JInt(0), JBool(FALSE), JList(<<>>)>>),
     JList(Warnings(1)), JList(Warnings(MAX_MODEL_WARNINGS)),
     JList(Warnings(MAX_MODEL_WARNINGS + 1)),
     JList(<<JNull>> \o Warnings(MAX_MODEL_WARNINGS)),
     JList(<<JStr(<<>>)>> \o SubSeq(Warnings(7), 1, 2) \o <<JInt(0)>>
           \o SubSeq(Warnings(7), 3, 7)),
     JList(<<JStr(Rep("w", MAX_WARNING_LEN) \o <<"!">>)>>),
     JList(<<JInt(7), JBool(TRUE), JFloat("finite", FALSE, 2, <<"5">>),
             JList(<<JStr(<<"x">>)>>), HL_term_only>>)}

\* replies with a highlights entry, and replies with a warnings entry next
\* to a matchPercent and a highlights entry
CoerceArgs ==
    {[f |-> "validate_and_coerce_response", data |-> JDict(h)] :
        h \in Entries(K_highlights, HighlightValues)}
    \cup {[f |-> "validate_and_coerce_response", data |-> JDict(p \o h \o w)] :
            p \in Entries(K_matchPercent, {JInt(50), JFloat("nan", FALSE, 0, <<>>)}),
            h \in Entries(K_highlights, {JNull, JDict(<<[k |-> K_jdMatches,
                                                         val |-> JList(HL_items(2))]>>)}),
            w \in Entries(K_warnings, WarningValues)}

\* validate_and_coerce_response(data)
Call_validate_and_coerce_response ==
    /\ fn = "none"
    /\ fn_args.f = "validate_and_coerce_response"
    /\ fn' = "validate_and_coerce_response"
    /\ fn_result' = validate_and_coerce_response(fn_args.data)
    /\ UNCHANGED <<fn_args, compare_vars, tasks>>

\* JSON objects of nesting depth 1, 2 and 3, the empty object, and an
\* object with a brace inside a string
OBJ_flat ==
    <<"{","\"","m","a","t","c","h","P","e","r","c","e","n","t","\"",":"," ",
      "7","0","}">>
OBJ_depth2 ==
    <<"{","\"","m","a","t","c","h","P","e","r","c","e","n","t","\"",":"," ",
      "7","0",","," ","\"","h","i","g","h","l","i","g","h","t","s","\"",":",
      " ","{","\"","j","d","M","a","t","c","h","e","s","\"",":"," ","[","]",
      "}","}">>
OBJ_depth3 ==
    <<"{","\"","a","\"",":"," ","{","\"","b","\"",":"," ","{","\"","c","\"",
      ":"," ","1","}","}","}">>
OBJ_empty ==
    <<"{","}">>
OBJ_brace ==
    <<"{","\"","a","\"",":"," ","\"","}","\"","}">>
\* an object with an opening brace inside a string
OBJ_open ==
    <<"{","\"","a","\"",":"," ","\"","{","\"","}">>

\* stands for the backquote character of a code fence
Backquote == "bq"

\* what precedes and follows the object in a reply: nothing, prose, a code
\* fence, a second object
PRE_prose ==
    <<"H","e","r","e"," ","i","s"," ","t","h","e"," ","r","e","s","u","l",
      "t",":"," ">>
PRE_fence ==
    <<Backquote,Backquote,Backquote,"j","s","o","n","\n">>
POST_prose ==
    <<" ","H","o","p","e"," ","t","h","i","s"," ","h","e","l","p","s",".">>
POST_fence ==
    <<"\n",Backquote,Backquote,Backquote>>
POST_object ==
    <<" ","{","\"","z","\"",":"," ","0","}">>

\* replies without any brace
TXT_sorry ==
    <<"S","o","r","r","y",","," ","I"," ","c","a","n","n","o","t"," ","h",
      "e","l","p"," ","w","i","t","h"," ","t","h","a","t",".">>
TXT_list ==
    <<"[","1",","," ","2","]">>
TXT_number ==
    <<"4","2">>
TXT_string ==
    <<"\"","d","o","n","e","\"">>
TXT_true ==
    <<"t","r","u","e">>
TXT_null ==
    <<"n","u","l","l">>

\* replies with braces and without a JSON object: a key without quotes
\* around an object, an object that is not closed, a closing brace first
TXT_unquoted ==
    <<"{","b","a","d",":"," ","{","\"","a","\"",":"," ","1","}","}">>
TXT_unclosed ==
    <<"{","\"","a","\"",":"," ","1">>
TXT_reversed ==
    <<"}"," ","n","o"," ","{">>

\* object is the JSON object the text contains, <<>> when it contains none
RecoverArgs ==
    {[f |-> "extract_json_from_text", text |-> pre \o obj \o post, object |-> obj] :
        pre  \in {<<>>, PRE_prose, PRE_fence},
        obj  \in {OBJ_flat, OBJ_depth2, OBJ_depth3, OBJ_empty, OBJ_brace, OBJ_open},
        post \in {<<>>, POST_prose, POST_fence, POST_object}}
    \cup {[f |-> "extract_json_from_text", text |-> t, object |-> <<>>] :
            t \in {<<>>, TXT_sorry, TXT_list, TXT_number, TXT_string, TXT_true, TXT_null,
                   TXT_unquoted, TXT_unclosed, TXT_reversed}}

\* extract_json_from_text(text)
Call_extract_json_from_text ==
    /\ fn = "none"
    /\ fn_args.f = "extract_json_from_text"
    /\ fn' = "extract_json_from_text"
    /\ fn_result' = extract_json_from_text(fn_args.text)
    /\ UNCHANGED <<fn_args, compare_vars, tasks>>

\* a declared content type outside the recognised ones
CT_OCTET == <<"a","p","p","l","i","c","a","t","i","o","n","/","o","c","t",
              "e","t","-","s","t","r","e","a","m">>

\* a document every extractor can read, each extractor to a different text
DOC_any == Doc(PypdfPages(<<Page(TEXT_page1), Page(TEXT_page1), Page(TEXT_page2)>>),
               PdfminerText(TEXT_page1), DocxParts(<<TEXT_page2>>, <<>>),
               Utf8Text(TEXT_resume), TEXT_resume)

\* the uploads extract_text_from_file is called with: every file name with
\* every declared content type
DispatchArgs ==
    {[f |-> "extract_text_from_file", file |-> UploadFile(n, t, SmallSize, d)] :
        n \in {FN_txt, FN_pdf, FN_PDF, FN_docx, FN_doc, FN_jpg, <<>>},
        t \in {CT_PDF, CT_DOCX, CT_DOC, CT_TXT, CT_JPEG, CT_OCTET, <<>>},
        d \in {DOC_any, DOC_pdf_bad}}

\* extract_text_from_file(upload_file)
Call_extract_text_from_file ==
    /\ fn = "none"
    /\ fn_args.f = "extract_text_from_file"
    /\ fn' = "extract_text_from_file"
    /\ fn_result' = extract_text_from_file(fn_args.file)
    /\ UNCHANGED <<fn_args, compare_vars, tasks>>

\* what pypdf makes of a PDF: the reader raises, no page, pages without
\* text, a page that raises, text of and around PDF_MIN_CHARS characters
PypdfOutcomes ==
    {PypdfFails,
     PypdfPages(<<>>),
     PypdfPages(<<Page(<<>>)>>),
     PypdfPages(<<PageFails>>),
     PypdfPages(<<Page(TEXT_short)>>),
     PypdfPages(<<Page(Rep("x", PDF_MIN_CHARS))>>),
     PypdfPages(<<Page(<<" ">> \o Rep("x", PDF_MIN_CHARS) \o <<" ", "\n">>)>>),
     PypdfPages(<<Page(Rep("x", PDF_MIN_CHARS + 1))>>),
     PypdfPages(<<Page(Rep(" ", PDF_MIN_CHARS + 1))>>),
     PypdfPages(<<Page(TEXT_page1), PageFails, Page(TEXT_page2)>>),
     PypdfPages(<<Page(TEXT_page1), Page(<<>>), Page(TEXT_short)>>)}

\* what pdfminer makes of it: it raises, or returns text, empty, blank,
\* short or long
PdfminerOutcomes ==
    {PdfminerFails,
     PdfminerText(<<>>),
     PdfminerText(<<" ", "\n">>),
     PdfminerText(TEXT_short),
     PdfminerText(TEXT_page1),
     PdfminerText(Rep("y", PDF_MIN_CHARS + 1))}

PdfArgs ==
    {[f |-> "extract_text_from_pdf",
      doc |-> Doc(p, m, DocxFails, Utf8Fails, TEXT_binary)] :
        p \in PypdfOutcomes, m \in PdfminerOutcomes}

\* extract_text_from_pdf(file_content, filename)
Call_extract_text_from_pdf ==
    /\ fn = "none"
    /\ fn_args.f = "extract_text_from_pdf"
    /\ fn' = "extract_text_from_pdf"
    /\ fn_result' = extract_text_from_pdf(fn_args.doc)
    /\ UNCHANGED <<fn_args, compare_vars, tasks>>

\* a text of exactly max_jd_length characters, and one a character longer
TEXT_at_limit   == Rep("A", max_jd_length)
TEXT_over_limit == Rep("A", max_jd_length) \o <<"Z">>

\* the texts build_comparison_prompt is called with: empty, short, equal to
\* or containing a placeholder of the template, at and over the limit
PromptTexts ==
    {<<>>, TEXT_page1, TEXT_resume, PH_JD_TEXT, PH_RESUME_TEXT,
     TEXT_short \o PH_RESUME_TEXT \o TEXT_short,
     TEXT_at_limit, TEXT_over_limit,
     PH_RESUME_TEXT \o TEXT_over_limit}

PromptArgs ==
    {[f |-> "build_comparison_prompt", jd_text |-> j, resume_text |-> r] :
        j \in PromptTexts, r \in PromptTexts}

\* build_comparison_prompt(jd_text, resume_text)
Call_build_comparison_prompt ==
    /\ fn = "none"
    /\ fn_args.f = "build_comparison_prompt"
    /\ fn' = "build_comparison_prompt"
    /\ fn_result' = build_comparison_prompt(fn_args.jd_text, fn_args.resume_text)
    /\ UNCHANGED <<fn_args, compare_vars, tasks>>

CallArgs ==
    SanitizeArgs \cup ValidateArgs \cup RecoverArgs \cup DispatchArgs \cup PdfArgs
    \cup PromptArgs \cup CoerceArgs

InitCalls ==
    /\ pc = "idle"
    /\ apiKey = FALSE
    /\ req = [resume_file |-> NoFile.file, jd_file |-> NoFile, jd_text |-> NoText]
    /\ warnings = <<>>
    /\ resume_text = <<>>
    /\ jd_final_text = <<>>
    /\ prompt_args = [called |-> FALSE, jd_text |-> <<>>, resume_text |-> <<>>]
    /\ endpoint = NoAnswer
    /\ result = [constructed |-> FALSE, assembled |-> NoResult, now |-> NoResult]
    /\ response = NoResponse
    /\ log = <<>>
    /\ fn = "none"
    /\ fn_args \in CallArgs
    /\ fn_result = NoReturn
    /\ tasks = NoTasks

NextCalls ==
    \/ Call_sanitize_text
    \/ Call_sanitize_text_again
    \/ Call_validate_and_coerce_response
    \/ Call_extract_json_from_text
    \/ Call_extract_text_from_file
    \/ Call_extract_text_from_pdf
    \/ Call_build_comparison_prompt

SpecCalls == InitCalls /\ [][NextCalls]_vars

-----------------------------------------------------------------------------
(* Concurrent compare requests.  Each request is served by its own         *)
(* coroutine; the coroutines run on one event loop and give way to each    *)
(* other at their awaits: the read of an upload and the call of the        *)
(* endpoint.  warnings, resume_text, jd_final_text and the result are      *)
(* locals of the coroutine; settings is the one object they share.         *)

\* the list `warnings` of request i, which a wrong program would keep at
\* module level
warnings_Shared(t, i) == t[1].warnings

\* main.py line 103: the list `warnings` of request i, a local of its coroutine
warnings_of(t, i) == t[i].warnings

\* the requests served together: with a truncation warning, with a fallback
\* warning, with file and text, failing in the resume, and without warnings
ConcurrentRequests ==
    {[resume_file |-> UploadFile(FN_txt, CT_TXT, SmallSize, PlainDoc(TEXT_long)),
      jd_file |-> NoFile, jd_text |-> SomeText(TEXT_resume)],
     [resume_file |-> UploadFile(FN_txt, CT_TXT, SmallSize, PlainDoc(TEXT_resume)),
      jd_file |-> SomeFile(UploadFile(FN_pdf, CT_PDF, SmallSize, DOC_pdf_bad)),
      jd_text |-> SomeText(TEXT_page1)],
     [resume_file |-> UploadFile(FN_docx, CT_DOCX, SmallSize, DOC_docx),
      jd_file |-> SomeFile(UploadFile(FN_txt, CT_TXT, SmallSize, PlainDoc(TEXT_long))),
      jd_text |-> SomeText(TEXT_page2)],
     [resume_file |-> UploadFile(FN_txt, CT_TXT, SmallSize, PlainDoc(TEXT_short)),
      jd_file |-> NoFile, jd_text |-> SomeText(TEXT_resume)],
     [resume_file |-> UploadFile(FN_pdf, CT_PDF, SmallSize, DOC_pdf),
      jd_file |-> NoFile, jd_text |-> SomeText(TEXT_page1)]}

ConcurrentOutcomes ==
    {Timeout, Answer(<<REPLY_sorry>>), Answer(<<REPLY_plain>>), Answer(<<REPLY_warnings>>)}

\* lines 100-118: request i arrives and is validated
Task_Receive(i, r) ==
    /\ tasks[i].pc = "idle"
    /\ tasks' = [tasks EXCEPT ![i] =
                    IF Validate(r) # NoResponse
                    THEN [@ EXCEPT !.req = r, !.pc = "done", !.response = Validate(r)]
                    ELSE [@ EXCEPT !.req = r, !.pc = "extract_resume"]]
    /\ UNCHANGED <<compare_vars, fn_vars>>

\* lines 120-133: the resume of request i is read and extracted
Task_ExtractResume(i) ==
    /\ tasks[i].pc = "extract_resume"
    /\ \E out \in {extract_text_from_file(tasks[i].req.resume_file)} :
           tasks' = [tasks EXCEPT ![i] =
                        IF out.ok
                        THEN [@ EXCEPT !.resume_text = out.text,
                                       !.warnings = IF out.warning.some
                                                    THEN Append(warnings_of(tasks, i),
                                                                out.warning.text)
                                                    ELSE warnings_of(tasks, i),
                                       !.pc = "resolve_jd"]
                        ELSE [@ EXCEPT !.pc = "done", !.response = ResumeError(out)]]
    /\ UNCHANGED <<compare_vars, fn_vars>>

\* lines 135-182: the job description of request i is taken from the file
\* or the text
Task_ResolveJd(i) ==
    /\ tasks[i].pc = "resolve_jd"
    /\ \E branch \in {JdBranch(tasks[i].req,
                               extract_text_from_file(tasks[i].req.jd_file.file))} :
           tasks' = [tasks EXCEPT ![i] =
                        [@ EXCEPT !.warnings = warnings_of(tasks, i) \o branch.warns,
                                  !.jd_final_text = branch.text,
                                  !.pc = IF /\ branch.raised = NoResponse
                                            /\ Len(Strip(branch.text)) >= MIN_TEXT_CHARS
                                         THEN "call_model" ELSE "done",
                                  !.response =
                                      IF branch.raised # NoResponse THEN branch.raised
                                      ELSE IF Len(Strip(branch.text)) < MIN_TEXT_CHARS
                                      THEN HTTPException(400, DETAIL_jd_empty)
                                      ELSE NoResponse]]
    /\ UNCHANGED <<compare_vars, fn_vars>>

\* main.py line 192, openai_client.py lines 232-257: request i calls the
\* endpoint
Task_CallModel(i) ==
    /\ tasks[i].pc = "call_model"
    /\ tasks' = [tasks EXCEPT ![i] =
                    IF ~apiKey
                    THEN [@ EXCEPT !.pc = "done",
                                   !.response = HTTPException(400, DETAIL_no_key)]
                    ELSE [@ EXCEPT !.pc = "await_model",
                                   !.prompt_args = [called |-> TRUE,
                                                    jd_text |-> tasks[i].jd_final_text,
                                                    resume_text |-> tasks[i].resume_text]]]
    /\ UNCHANGED <<compare_vars, fn_vars>>

\* openai_client.py lines 258-315, main.py lines 194-216: the endpoint
\* answers request i with o
Task_ModelAnswers(i, o) ==
    /\ tasks[i].pc = "await_model"
    /\ \E out \in {CompletionOutcome(o)} :
           tasks' = [tasks EXCEPT ![i] =
                        [@ EXCEPT !.endpoint = o,
                                  !.pc = "done",
                                  !.response =
                                      IF out.raised
                                      THEN HTTPException(502,
                                               <<"O","p","e","n","A","I"," ","A","P","I",
                                                 " ","e","r","r","o","r",":"," ">>
                                               \o out.msg)
                                      ELSE Ok200(MergeWarnings(out.result,
                                                               warnings_of(tasks, i)))]]
    /\ UNCHANGED <<compare_vars, fn_vars>>

InitConcurrent ==
    /\ pc = "idle"
    /\ apiKey \in BOOLEAN
    /\ req = [resume_file |-> NoFile.file, jd_file |-> NoFile, jd_text |-> NoText]
    /\ warnings = <<>>
    /\ resume_text = <<>>
    /\ jd_final_text = <<>>
    /\ prompt_args = [called |-> FALSE, jd_text |-> <<>>, resume_text |-> <<>>]
    /\ endpoint = NoAnswer
    /\ result = [constructed |-> FALSE, assembled |-> NoResult, now |-> NoResult]
    /\ response = NoResponse
    /\ log = <<>>
    /\ fn = "none"
    /\ fn_args = NoArgs
    /\ fn_result = NoReturn
    /\ tasks = NoTasks

NextConcurrent ==
    \E i \in RequestIds :
        \/ \E r \in ConcurrentRequests : Task_Receive(i, r)
        \/ Task_ExtractResume(i)
        \/ Task_ResolveJd(i)
        \/ Task_CallModel(i)
        \/ \E o \in ConcurrentOutcomes : Task_ModelAnswers(i, o)

SpecConcurrent == InitConcurrent /\ [][NextConcurrent]_vars

-----------------------------------------------------------------------------
(* Properties of compare *)

Done == pc = "done"
Succeeded == Done /\ response.status = 200

\* an Optional[List] read as a list
ItemsOf(opt) == IF opt.some THEN opt.items ELSE <<>>

InSeq(x, seq) == \E i \in 1..Len(seq) : seq[i] = x

\* the operations logged for the resume ("resume") or the JD file ("jd")
Ops(who) ==
    LET mine == SelectSeq(log, LAMBDA e : e.who = who)
    IN  [i \in 1..Len(mine) |-> mine[i].op]

Count(op) == Len(SelectSeq(log, LAMBDA e : e.op = op))

FileOf(who) == IF who = "resume" THEN req.resume_file ELSE req.jd_file.file

\* the JD file was read and its extraction ended as `ok`
JdFileExtraction(ok) ==
    /\ Ops("jd") # <<>>
    /\ extract_text_from_file(req.jd_file.file).ok = ok

\* the completion text handed to extract_json_from_text
Reply == Strip(endpoint.choices[1])

\* extract_json_from_text was called on the reply and returned None
NoJsonInReply ==
    /\ endpoint.kind = "answer"
    /\ endpoint.choices # <<>>
    /\ Reply # <<>>
    /\ extract_json_from_text(Reply).t = "null"

\* C1: when the model reply holds no recoverable JSON, compare answers 200
\* with matchPercent 0, no skills, no highlights, and warnings that hold the
\* invalid-JSON entry and a preview made of the first PREVIEW_LEN characters
\* of the reply (the whole reply when it is shorter).
C1_FallbackOnNoJson ==
    (Done /\ NoJsonInReply) =>
        /\ response.status = 200
        /\ response.body.matchPercent = 0
        /\ response.body.matchedSkills = {}
        /\ response.body.missingSkills = {}
        /\ ~response.body.highlights.some
        /\ InSeq(MSG_invalid_json, ItemsOf(response.body.warnings))
        /\ InSeq(MSG_preview(Take(Reply, PREVIEW_LEN)), ItemsOf(response.body.warnings))
        /\ Len(Take(Reply, PREVIEW_LEN)) <= PREVIEW_LEN

C1_Witness == Done /\ NoJsonInReply /\ Len(Reply) > PREVIEW_LEN /\ response.status = 200

\* the entry that records the failure of the JD file
JdFailureWarning ==
    IF extract_text_from_file(req.jd_file.file).exc = "ValueError"
    THEN MSG_jd_failed(extract_text_from_file(req.jd_file.file).msg)
    ELSE MSG_jd_error

\* what C2 says of a request whose JD file failed while jd_text was given:
\* jd_text is the job description, and a result carries the failure warning
JdTextUsedWithWarning ==
    /\ jd_final_text = req.jd_text.text
    /\ prompt_args.called => prompt_args.jd_text = req.jd_text.text
    /\ Succeeded => InSeq(JdFailureWarning, ItemsOf(response.body.warnings))

C3_FilePreferred ==
    (HasJdText(req) /\ JdFileExtraction(TRUE)) =>
        /\ jd_final_text = extract_text_from_file(req.jd_file.file).text
        /\ prompt_args.called =>
              prompt_args.jd_text = extract_text_from_file(req.jd_file.file).text
        /\ Succeeded => InSeq(MSG_both, ItemsOf(response.body.warnings))

C3_Witness ==
    /\ Succeeded /\ HasJdText(req) /\ JdFileExtraction(TRUE)
    /\ req.jd_text.text # extract_text_from_file(req.jd_file.file).text

\* the request gives neither a JD file nor JD text
NoJdSource == pc # "idle" /\ ~req.jd_file.some /\ ~HasJdText(req)

W_jd_file == <<"j","d","_","f","i","l","e">>
W_jd_text == <<"j","d","_","t","e","x","t">>

\* C4 as stated: a request with neither JD source ends with status 400 and
\* a message naming jd_file and jd_text, before any extraction or model call.
C4_Original ==
    NoJdSource =>
        /\ Done /\ response.status = 400
        /\ Contains(response.detail, W_jd_file) /\ Contains(response.detail, W_jd_text)
        /\ log = <<>>

\* C4 amended: such a request ends with status 400 before any extraction or
\* model call; the message names jd_file and jd_text when the resume upload
\* has a filename, and is "resume_file is required" when it has none.
C4_NoJdSource ==
    NoJdSource =>
        /\ Done /\ response.status = 400
        /\ log = <<>>
        /\ IF req.resume_file.filename # <<>>
           THEN Contains(response.detail, W_jd_file) /\ Contains(response.detail, W_jd_text)
           ELSE response.detail = DETAIL_resume_required

C4_Witness == NoJdSource /\ Done /\ req.resume_file.filename # <<>>

\* the warnings the extraction of this request gives rise to, in the order
\* compare records them: truncation of the resume, truncation of the JD
\* file, the file used instead of the text, the failure of the JD file
ExtractionWarnings ==
    LET r == extract_text_from_file(req.resume_file)
        j == extract_text_from_file(req.jd_file.file)
    IN  (IF r.ok /\ r.warning.some THEN <<MSG_truncated(FileName(req.resume_file))>> ELSE <<>>)
        \o (IF HasJdFile(req) /\ j.ok /\ j.warning.some
              THEN <<MSG_truncated(FileName(req.jd_file.file))>> ELSE <<>>)
        \o (IF HasJdFile(req) /\ j.ok /\ HasJdText(req) THEN <<MSG_both>> ELSE <<>>)
        \o (IF HasJdFile(req) /\ ~j.ok /\ HasJdText(req) THEN <<JdFailureWarning>> ELSE <<>>)

\* s is the beginning of t
IsPrefix(s, t) == Len(s) <= Len(t) /\ SubSeq(t, 1, Len(s)) = s

\* C5: in a successful request every extraction warning is in the result's
\* warnings, together with every warning kept from the model's reply, and
\* the model's warnings come first.
C5_WarningsMerged ==
    Succeeded =>
        LET model == ItemsOf(result.assembled.warnings)
            final == ItemsOf(response.body.warnings)
        IN  /\ IsPrefix(model, final)
            /\ SubSeq(final, Len(model) + 1, Len(final)) = ExtractionWarnings

C5_Witness ==
    /\ Succeeded
    /\ Len(ItemsOf(result.assembled.warnings)) >= 1
    /\ Len(ExtractionWarnings) >= 3

\* C6: the result returned to the caller has at most 5 warnings, each of at
\* most 500 characters.
C6_WarningsBounded ==
    Succeeded =>
        /\ Len(ItemsOf(response.body.warnings)) <= MAX_MODEL_WARNINGS
        /\ \A i \in 1..Len(ItemsOf(response.body.warnings)) :
              Len(ItemsOf(response.body.warnings)[i]) <= MAX_WARNING_LEN

\* C7 as stated: the result is constructed exactly once and the returned
\* result equals the result as it was assembled.
C7_Original ==
    Succeeded =>
        /\ Count("CompareResponseModel") = 1
        /\ response.body = result.assembled

\* C7 amended: the result is constructed exactly once; after construction
\* only its warnings change, by the extraction warnings being appended (or
\* set, when it had none); with no extraction warnings nothing changes.
C7_OnlyWarningsChange ==
    Succeeded =>
        /\ Count("CompareResponseModel") = 1
        /\ response.body = result.now
        /\ [response.body EXCEPT !.warnings = result.assembled.warnings] = result.assembled
        /\ ItemsOf(response.body.warnings) = ItemsOf(result.assembled.warnings) \o warnings
        /\ warnings = <<>> => response.body = result.assembled

C7_Witness ==
    /\ Succeeded /\ warnings # <<>>
    /\ result.assembled.warnings.some
    /\ result.assembled.matchedSkills # {}
    /\ result.assembled.matchPercent > 0

\* the endpoint call timed out, answered with an error status, or could not
\* connect
TransportFailure == endpoint.kind \in {"timeout", "http_error", "connect_error"}

\* C8: a transport failure of the endpoint call ends the request with status
\* 502, no result is returned, and the endpoint was called exactly once.
C8_TransportFailure ==
    TransportFailure =>
        /\ Done /\ response.status = 502
        /\ ~result.constructed /\ response.body = NoResult
        /\ Count("post") = 1

C8_Witness == Done /\ endpoint.kind = "timeout" /\ warnings # <<>>

\* the resume was read and its extraction failed
ResumeExtractionFailed ==
    Ops("resume") # <<>> /\ ~extract_text_from_file(req.resume_file).ok

\* C9 as stated: every extraction failure of the resume ends the request
\* with status 400.
C9_Original == ResumeExtractionFailed => (Done /\ response.status = 400)

\* C9 amended: an extraction failure of the resume ends the request with
\* status 400 when the upload was rejected with a ValueError (size,
\* unsupported type, too little text after sanitization) and with status 500
\* when the PDF or Word extractor raised.
C9_ResumeFailure ==
    ResumeExtractionFailed =>
        /\ Done
        /\ response.status =
              IF Ops("resume") \in {<<"read">>, <<"read", "pdf", "sanitize_text">>,
                                    <<"read", "docx", "sanitize_text">>,
                                    <<"read", "txt", "sanitize_text">>}
              THEN 400 ELSE 500

C9_Witness ==
    ResumeExtractionFailed /\ Done /\ Ops("resume") = <<"read", "docx">>

\* the size error of the upload `who` was reported: as the 400 response, or
\* for a JD file with jd_text as the failure warning
SizeErrorReported(who) ==
    IF who = "jd" /\ HasJdText(req)
    THEN InSeq(MSG_jd_failed(MSG_file_size(FileOf(who).size)), warnings)
    ELSE response = HTTPException(400, MSG_file_size(FileOf(who).size))

\* C10: an upload larger than MAX_FILE_SIZE fails with the size error
\* without any extractor or sanitization having run; an upload of exactly
\* MAX_FILE_SIZE bytes is not rejected for its size.
C10_SizeCheckedFirst ==
    \A who \in {"resume", "jd"} :
        Ops(who) # <<>> =>
            /\ FileOf(who).size > MAX_FILE_SIZE =>
                  Ops(who) = <<"read">> /\ SizeErrorReported(who)
            /\ FileOf(who).size = MAX_FILE_SIZE =>
                  /\ ~SizeErrorReported(who)
                  /\ Extractor(FileName(FileOf(who)), FileOf(who).content_type) # "none"
                        => Len(Ops(who)) >= 2

C10_Witness ==
    /\ Done
    /\ FileOf("resume").size = MAX_FILE_SIZE + 1
    /\ Ops("resume") = <<"read">>

-----------------------------------------------------------------------------
(* Properties of sanitize_text *)

\* s has three newline characters in a row
HasNewlineRun(s) ==
    \E i \in 1..(Len(s) - 2) : s[i] = "\n" /\ s[i + 1] = "\n" /\ s[i + 2] = "\n"

HasNull(s) == \E i \in 1..Len(s) : s[i] = NUL

\* sanitize_text has returned
Sanitized == fn \in {"sanitize_text", "sanitize_text again"}

\* C16: the text sanitize_text returns has no null character, no run of
\* three or more newlines, and at most max_length characters.
C16_SanitizedText ==
    Sanitized =>
        /\ ~HasNull(fn_result.text)
        /\ ~HasNewlineRun(fn_result.text)
        /\ Len(fn_result.text) <= fn_args.max_length

C16_Witness ==
    /\ fn = "sanitize_text"
    /\ HasNull(fn_args.text) /\ HasNewlineRun(fn_args.text)
    /\ Len(fn_args.text) > fn_args.max_length
    /\ fn_result.text # <<>>

\* C17: sanitizing the text sanitize_text returned, with the same
\* max_length, returns the same text.
C17_Idempotent ==
    fn = "sanitize_text again" => fn_result.text = fn_args.text

\* C18: was_truncated is true exactly when the cleaned text (nulls removed,
\* whitespace and newlines collapsed, trimmed) is longer than max_length;
\* the returned text is then its first max_length characters, and otherwise
\* the whole cleaned text.
C18_Truncation ==
    fn = "sanitize_text" =>
        LET clean == CleanText(fn_args.text)
        IN  /\ fn_result.was_truncated <=> Len(clean) > fn_args.max_length
            /\ fn_result.was_truncated =>
                  /\ Len(fn_result.text) = fn_args.max_length
                  /\ fn_result.text = SubSeq(clean, 1, fn_args.max_length)
            /\ ~fn_result.was_truncated => fn_result.text = clean
            /\ fn_args.text = <<>> => fn_result = [text |-> <<>>, was_truncated |-> FALSE]

C18_Witness ==
    /\ fn = "sanitize_text"
    /\ fn_result.was_truncated
    /\ fn_args.max_length > 0
    /\ Len(CleanText(fn_args.text)) < Len(fn_args.text)

-----------------------------------------------------------------------------
(* Properties of validate_and_coerce_response *)

\* validate_and_coerce_response was called
Validated == fn = "validate_and_coerce_response"

\* the matchPercent entry of the mapping given, JNull when absent: what
\* data.get('matchPercent') returns
GivenPercent == Get(fn_args.data, K_matchPercent, JNull)

\* C11: for every mapping, whatever its matchPercent entry, a result is
\* returned and its matchPercent is an integer from 0 to 100.
C11_PercentInRange ==
    Validated =>
        /\ ~fn_result.raised
        /\ fn_result.result.matchPercent \in 0..100

\* round(100 * m / (m + k)), halves going to the even neighbour; 0 when
\* m + k = 0
Derived(m, k) ==
    IF m + k = 0 THEN 0
    ELSE CHOOSE r \in 0..100 :
            LET twice == 2 * (100 * m - r * (m + k))
                dist  == IF twice < 0 THEN 0 - twice ELSE twice
            IN  /\ dist <= m + k
                /\ dist = m + k => r % 2 = 0

\* the percentage derived from the skills of the returned result
DerivedPercent ==
    Derived(Cardinality(fn_result.result.matchedSkills),
            Cardinality(fn_result.result.missingSkills))

\* C12 as stated: when the matchPercent entry is absent or not a number,
\* matchPercent is derived from the returned skills.
C12_Original ==
    (Validated /\ GivenPercent.t \notin {"int", "float"}) =>
        /\ ~fn_result.raised
        /\ fn_result.result.matchPercent = DerivedPercent

\* C12 amended: matchPercent is derived from the returned skills when the
\* entry is absent, null, a string, a list or a mapping; a boolean entry
\* counts as a number and gives 1 for true and 0 for false.
C12_DerivedPercent ==
    (Validated /\ GivenPercent.t \notin {"int", "float"}) =>
        /\ ~fn_result.raised
        /\ fn_result.result.matchPercent =
              IF GivenPercent.t = "bool"
              THEN (IF GivenPercent.v THEN 1 ELSE 0)
              ELSE DerivedPercent
        /\ Derived(2, 0) = 100 /\ Derived(1, 1) = 50

\* 3 matched and 5 missing skills: 37.5 is rounded to 38
C12_Witness ==
    /\ Validated
    /\ GivenPercent.t = "str"
    /\ Cardinality(fn_result.result.matchedSkills) = 3
    /\ Cardinality(fn_result.result.missingSkills) = 5
    /\ fn_result.result.matchPercent = 38

\* what C13 says of the list returned for the entry `key`
SkillsCoerced(key, returned) ==
    LET src == Get(fn_args.data, key, JNull)
    IN  /\ (~HasKey(fn_args.data, key) \/ src.t # "list") => returned = {}
        /\ (HasKey(fn_args.data, key) /\ src.t = "list") =>
              /\ \A i \in 1..Len(src.v) : Truthy(src.v[i]) => Str(src.v[i]) \in returned
              /\ \A x \in returned :
                    \E i \in 1..Len(src.v) : Truthy(src.v[i]) /\ Str(src.v[i]) = x
              /\ <<>> \notin returned
        /\ src = JList(<<JStr(SKILL_Python), JStr(SKILL_python), JStr(SKILL_Python)>>)
              => returned = {SKILL_Python, SKILL_python}

\* C13: each skills list returned is empty when the source value is missing
\* or not a list, and else holds the string form of every truthy source
\* element once; names that differ only in letter case are both kept.
C13_SkillsCoerced ==
    (Validated /\ ~fn_result.raised) =>
        /\ SkillsCoerced(K_matchedSkills, fn_result.result.matchedSkills)
        /\ SkillsCoerced(K_missingSkills, fn_result.result.missingSkills)

C13_Witness ==
    /\ Validated /\ ~fn_result.raised
    /\ fn_result.result.matchedSkills = {SKILL_Python, SKILL_python}
    /\ Get(fn_args.data, K_missingSkills, JNull).t = "list"
    /\ Cardinality(fn_result.result.missingSkills) = 2
    /\ Len(Get(fn_args.data, K_missingSkills, JNull).v) = 7

-----------------------------------------------------------------------------
(* Properties of extract_json_from_text *)

Recovered == fn = "extract_json_from_text"

\* C14: from a reply that contains a JSON object (alone, or with prose, a
\* code fence or a second object around it, at any nesting depth)
\* extract_json_from_text returns that whole object.
C14_WholeObject ==
    (Recovered /\ fn_args.object # <<>>) =>
        fn_result = JsonLoads(fn_args.object).val

\* C15: from a reply with neither '{' nor '}' extract_json_from_text returns
\* None.
C15_NoBraces ==
    (Recovered /\ ~Contains(fn_args.text, <<"{">>) /\ ~Contains(fn_args.text, <<"}">>)) =>
        fn_result = JNull

-----------------------------------------------------------------------------
(* Properties of the dispatch in extract_text_from_file *)

Dispatched == fn = "extract_text_from_file"

\* the extractor a declared content type stands for
KindOfType(content_type) ==
    CASE content_type = CT_PDF            -> "pdf"
      [] content_type \in {CT_DOCX, CT_DOC} -> "docx"
      [] content_type = CT_TXT            -> "txt"
      [] OTHER                            -> "none"

\* the extractor a file name's extension stands for, in any letter case
KindOfExtension(filename) ==
    CASE EndsWith(Lower(filename), EXT_PDF)  -> "pdf"
      [] EndsWith(Lower(filename), EXT_DOCX) -> "docx"
      [] EndsWith(Lower(filename), EXT_DOC)  -> "docx"
      [] EndsWith(Lower(filename), EXT_TXT)  -> "txt"
      [] OTHER                               -> "none"

\* C19: a recognised declared content type selects the extractor whatever
\* the file name; the extension decides when the content type is absent or
\* generic; when neither is recognised the call fails with the
\* unsupported-type error that names PDF, DOCX, DOC, TXT.
C19_DispatchByType ==
    Dispatched =>
        /\ KindOfType(fn_args.file.content_type) # "none" =>
               SubSeq(fn_result.calls, 1, 2)
                   = <<"read", KindOfType(fn_args.file.content_type)>>
        /\ (/\ fn_args.file.content_type \in {<<>>, CT_OCTET}
            /\ KindOfExtension(FileName(fn_args.file)) # "none") =>
               SubSeq(fn_result.calls, 1, 2)
                   = <<"read", KindOfExtension(FileName(fn_args.file))>>
        /\ (/\ KindOfType(fn_args.file.content_type) = "none"
            /\ KindOfExtension(FileName(fn_args.file)) = "none") =>
               fn_result = Raised("ValueError",
                                  MSG_unsupported(fn_args.file.content_type))
                               @@ [calls |-> <<"read">>]

-----------------------------------------------------------------------------
(* Properties of extract_text_from_pdf *)

PdfRead == fn = "extract_text_from_pdf"

\* the text of the pages pypdf could read, joined by newlines
PypdfText(doc) ==
    Join(SelectSeq([i \in 1..Len(doc.pypdf.pages) |->
                       IF doc.pypdf.pages[i].ok THEN doc.pypdf.pages[i].text
                       ELSE <<>>],
                   LAMBDA t : t # <<>>),
         <<"\n">>)

\* pypdf raised, or its text has at most PDF_MIN_CHARS characters when
\* stripped
FastInsufficient(doc) ==
    \/ ~doc.pypdf.ok
    \/ Len(Strip(PypdfText(doc))) <= PDF_MIN_CHARS

\* C20 as stated: the call raises whenever pypdf is insufficient and
\* pdfminer raises or yields no usable text, and no success carries empty
\* text or text at or below the threshold.
C20_Original ==
    PdfRead =>
        /\ (/\ FastInsufficient(fn_args.doc)
            /\ \/ ~fn_args.doc.pdfminer.ok
               \/ Strip(fn_args.doc.pdfminer.text) = <<>>) => ~fn_result.ok
        /\ fn_result.ok => Len(Strip(fn_result.text)) > PDF_MIN_CHARS

\* C20: the call raises exactly when pypdf is insufficient and pdfminer
\* raises; text of pypdf above the threshold is returned, and otherwise
\* whatever pdfminer returns is returned as a success, of any length.
C20_PdfOutcome ==
    PdfRead =>
        /\ ~fn_result.ok <=>
               (FastInsufficient(fn_args.doc) /\ ~fn_args.doc.pdfminer.ok)
        /\ ~fn_result.ok => fn_result.exc = "Exception"
        /\ ~FastInsufficient(fn_args.doc) =>
               fn_result = Returned(PypdfText(fn_args.doc), NoWarning)
        /\ (FastInsufficient(fn_args.doc) /\ fn_args.doc.pdfminer.ok) =>
               fn_result = Returned(fn_args.doc.pdfminer.text, NoWarning)

\* pypdf read too little, pdfminer returned no text, and the call returned
\* the empty text
C20_Witness ==
    /\ PdfRead
    /\ fn_args.doc.pypdf.ok
    /\ PypdfText(fn_args.doc) = TEXT_short
    /\ fn_args.doc.pdfminer = PdfminerText(<<>>)
    /\ fn_result.ok
    /\ fn_result.text = <<>>

-----------------------------------------------------------------------------
(* Properties of build_comparison_prompt *)

Built == fn = "build_comparison_prompt"

\* the fixed text of the template before, between and after the two blocks
TemplateHead ==
    SubSeq(COMPARISON_PROMPT_TEMPLATE, 1,
           FindOccurrence(COMPARISON_PROMPT_TEMPLATE, PH_JD_TEXT, 1) - 1)
TemplateMiddle ==
    SubSeq(COMPARISON_PROMPT_TEMPLATE,
           FindOccurrence(COMPARISON_PROMPT_TEMPLATE, PH_JD_TEXT, 1) + Len(PH_JD_TEXT),
           FindOccurrence(COMPARISON_PROMPT_TEMPLATE, PH_RESUME_TEXT, 1) - 1)
TemplateTail ==
    SubSeq(COMPARISON_PROMPT_TEMPLATE,
           FindOccurrence(COMPARISON_PROMPT_TEMPLATE, PH_RESUME_TEXT, 1)
               + Len(PH_RESUME_TEXT),
           Len(COMPARISON_PROMPT_TEMPLATE))

\* the template with jd in the first block and resume in the second
Filled(jd, resume) ==
    TemplateHead \o jd \o TemplateMiddle \o resume \o TemplateTail

JdCut     == Len(fn_args.jd_text) > max_jd_length
ResumeCut == Len(fn_args.resume_text) > max_resume_length

\* the note that names exactly the sides that were cut
ExpectedNote ==
    IF ~JdCut /\ ~ResumeCut THEN <<>>
    ELSE NOTE_head \o (IF JdCut THEN NOTE_jd ELSE <<>>)
         \o (IF ResumeCut THEN NOTE_resume ELSE <<>>) \o NOTE_tail

\* C21: the prompt carries at most the first max_jd_length characters of
\* the JD text and the first max_resume_length characters of the resume
\* text, each limit on its own; it ends with a truncation note exactly when
\* a text was longer than its limit, and the note names exactly the sides
\* that were cut.  (Texts that hold the resume placeholder in the JD are
\* the subject of C22; for them the end of the prompt is checked.)
C21_PromptTruncation ==
    Built =>
        /\ EndsWith(fn_result, TemplateTail \o ExpectedNote)
        /\ (JdCut \/ ResumeCut) <=> EndsWith(fn_result, NOTE_tail)
        /\ ~Contains(fn_args.jd_text, PH_RESUME_TEXT) =>
               fn_result = Filled(Take(fn_args.jd_text, max_jd_length),
                                  Take(fn_args.resume_text, max_resume_length))
                           \o ExpectedNote

\* only the resume was longer than its limit, the JD exactly at its limit
C21_Witness ==
    /\ Built
    /\ fn_args.jd_text = TEXT_at_limit
    /\ fn_args.resume_text = TEXT_over_limit
    /\ EndsWith(fn_result, NOTE_head \o NOTE_resume \o NOTE_tail)
    /\ Len(fn_result) = Len(COMPARISON_PROMPT_TEMPLATE) - Len(PH_JD_TEXT)
                        - Len(PH_RESUME_TEXT) + max_jd_length + max_resume_length
                        + Len(NOTE_head \o NOTE_resume \o NOTE_tail)

\* C22: for texts within the limits the prompt is the template with the JD
\* text verbatim in the first block and the resume text verbatim in the
\* second, whatever the texts contain.
C22_Verbatim ==
    (/\ Built
     /\ Len(fn_args.jd_text) <= max_jd_length
     /\ Len(fn_args.resume_text) <= max_resume_length) =>
        fn_result = Filled(fn_args.jd_text, fn_args.resume_text)

-----------------------------------------------------------------------------
(* Properties of the highlights and warnings of validate_and_coerce_response *)

Coerced == Validated /\ ~fn_result.raised

\* data.get('highlights'), JNull when absent
GivenHighlights == Get(fn_args.data, K_highlights, JNull)

\* an item validate_highlights accepts
ValidItem(it) == it.t = "dict" /\ HasKey(it, K_term) /\ HasKey(it, K_context)

\* the HighlightItem made of a valid item
HighlightItem(it) ==
    [term    |-> Take(Str(Get(it, K_term, JNull)), MAX_TERM_LEN),
     context |-> Take(Str(Get(it, K_context, JNull)), MAX_CONTEXT_LEN)]

HighlightItems(items) == [i \in 1..Len(items) |-> HighlightItem(items[i])]

\* the items of a sub-list of the result's highlights, none when absent
KeptItems(sub) == IF fn_result.result.highlights.some /\ sub.some THEN sub.items ELSE <<>>

\* C24 as stated: a sub-list that is a list yields its first MAX_HIGHLIGHTS
\* valid items, counted over the whole list.
FirstValidOfAll(key, sub) ==
    (GivenHighlights.t = "dict" /\ Get(GivenHighlights, key, JList(<<>>)).t = "list") =>
        KeptItems(sub) = Take(HighlightItems(SelectSeq(Get(GivenHighlights, key, JList(<<>>)).v,
                                                       ValidItem)),
                              MAX_HIGHLIGHTS)

C24_Original ==
    Coerced =>
        /\ FirstValidOfAll(K_jdMatches, fn_result.result.highlights.jdMatches)
        /\ FirstValidOfAll(K_resumeMatches, fn_result.result.highlights.resumeMatches)

\* a sub-list that is a list yields the valid items among its first
\* MAX_HIGHLIGHTS elements
ValidOfFirst(key, sub) ==
    (GivenHighlights.t = "dict" /\ Get(GivenHighlights, key, JList(<<>>)).t = "list") =>
        KeptItems(sub) =
            HighlightItems(SelectSeq(Take(Get(GivenHighlights, key, JList(<<>>)).v,
                                          MAX_HIGHLIGHTS),
                                     ValidItem))

\* C24: for each of jdMatches and resumeMatches that is a list, the result
\* keeps the valid items among the first MAX_HIGHLIGHTS elements of the
\* list, in order; each kept term is the string form cut to MAX_TERM_LEN
\* characters and each context the string form cut to MAX_CONTEXT_LEN.
C24_HighlightsKept ==
    Coerced =>
        /\ ValidOfFirst(K_jdMatches, fn_result.result.highlights.jdMatches)
        /\ ValidOfFirst(K_resumeMatches, fn_result.result.highlights.resumeMatches)

\* jdMatches held an invalid item and then ten valid ones; nine were kept
C24_Witness ==
    /\ Coerced
    /\ GivenHighlights.t = "dict"
    /\ Get(GivenHighlights, K_jdMatches, JNull)
           = JList(<<JNull>> \o HL_items(MAX_HIGHLIGHTS))
    /\ fn_result.result.highlights.jdMatches
           = SomeList(HighlightItems(HL_items(MAX_HIGHLIGHTS - 1)))

\* a sub-list of the highlights entry has a valid item among its first
\* MAX_HIGHLIGHTS elements
YieldsItem(key) ==
    /\ Get(GivenHighlights, key, JList(<<>>)).t = "list"
    /\ \E i \in 1..MAX_HIGHLIGHTS :
           /\ i <= Len(Get(GivenHighlights, key, JList(<<>>)).v)
           /\ ValidItem(Get(GivenHighlights, key, JList(<<>>)).v[i])

\* C25: highlights is present exactly when the highlights entry is a mapping
\* and jdMatches or resumeMatches yields a valid item; a sub-list of a
\* present highlights is absent or not empty.
C25_HighlightsPresent ==
    Coerced =>
        /\ fn_result.result.highlights.some <=>
               /\ GivenHighlights.t = "dict"
               /\ YieldsItem(K_jdMatches) \/ YieldsItem(K_resumeMatches)
        /\ fn_result.result.highlights.jdMatches.some =>
               fn_result.result.highlights.jdMatches.items # <<>>
        /\ fn_result.result.highlights.resumeMatches.some =>
               fn_result.result.highlights.resumeMatches.items # <<>>
        /\ ~fn_result.result.highlights.some =>
               fn_result.result.highlights = NoHighlights

\* jdMatches was a list without a valid item, resumeMatches yielded one:
\* highlights is present and its jdMatches is absent
C25_Witness ==
    /\ Coerced
    /\ GivenHighlights.t = "dict"
    /\ Get(GivenHighlights, K_jdMatches, JNull).t = "list"
    /\ Get(GivenHighlights, K_jdMatches, JNull).v # <<>>
    /\ fn_result.result.highlights.some
    /\ ~fn_result.result.highlights.jdMatches.some
    /\ fn_result.result.highlights.resumeMatches.some

\* data.get('warnings', [])
GivenWarnings == Get(fn_args.data, K_warnings, JList(<<>>))

\* the string forms of items, each cut to MAX_WARNING_LEN characters
WarningTexts(items) ==
    [i \in 1..Len(items) |-> Take(Str(items[i]), MAX_WARNING_LEN)]

\* C26 as stated: warnings is absent when the entry is missing or no list,
\* and a present warnings holds the string forms of the first
\* MAX_MODEL_WARNINGS elements of the list.
C26_Original ==
    Coerced =>
        /\ GivenWarnings.t # "list" => fn_result.result.warnings = NoList
        /\ fn_result.result.warnings.some =>
               fn_result.result.warnings.items
                   = WarningTexts(Take(GivenWarnings.v, MAX_MODEL_WARNINGS))

\* C26: warnings is absent when the entry is missing, no list, or a list
\* without a truthy element; otherwise it holds the string forms of the
\* first MAX_MODEL_WARNINGS truthy elements of the list, in order, each cut
\* to MAX_WARNING_LEN characters.
C26_WarningsCoerced ==
    Coerced =>
        fn_result.result.warnings =
            IF GivenWarnings.t # "list" THEN NoList
            ELSE NoneIfEmpty(Take(WarningTexts(SelectSeq(GivenWarnings.v, Truthy)),
                                  MAX_MODEL_WARNINGS))

\* None came before five warnings, and all five were kept
C26_Witness ==
    /\ Coerced
    /\ GivenWarnings = JList(<<JNull>> \o Warnings(MAX_MODEL_WARNINGS))
    /\ fn_result.result.warnings
           = SomeList([i \in 1..MAX_MODEL_WARNINGS |-> <<"w">> \o DigitsOfNat(i)])

\* C27: for every mapping, whatever its entries hold, the call returns a
\* result and does not raise.
C27_NeverRaises ==
    (Validated /\ fn_args.data.t = "dict") => ~fn_result.raised

-----------------------------------------------------------------------------
(* Properties of the order of the strategies of extract_json_from_text *)

\* strategy 1: the whole reply parsed as JSON
WholeReply == JsonLoads(fn_args.text)

\* strategy 2: the brace-delimited pieces with at most one level of nested
\* braces, as the pattern finds them from left to right, and the first of
\* them that parses
Pieces == FindAll(fn_args.text, 1)
FirstPiece ==
    IF \E i \in 1..Len(Pieces) : JsonLoads(Pieces[i]).ok
    THEN JsonLoads(Pieces[CHOOSE i \in 1..Len(Pieces) :
                            /\ JsonLoads(Pieces[i]).ok
                            /\ \A j \in 1..(i - 1) : ~JsonLoads(Pieces[j]).ok])
    ELSE ParseFail

\* strategy 3: the span from the first '{' to the last '}'
BraceSpan ==
    IF /\ \E i \in 1..Len(fn_args.text) : fn_args.text[i] = "{"
       /\ \E j \in 1..Len(fn_args.text) : fn_args.text[j] = "}"
       /\ Find(fn_args.text, "{") < RFind(fn_args.text, "}")
    THEN JsonLoads(SubSeq(fn_args.text, Find(fn_args.text, "{"),
                          RFind(fn_args.text, "}")))
    ELSE ParseFail

\* C28: the strategies are applied in the order 1, 2, 3 and the first
\* success is returned; a later strategy decides only when the earlier
\* ones failed; None is returned only when all three fail.
C28_StrategyOrder ==
    Recovered =>
        /\ WholeReply.ok => fn_result = WholeReply.val
        /\ (~WholeReply.ok /\ FirstPiece.ok) => fn_result = FirstPiece.val
        /\ (~WholeReply.ok /\ ~FirstPiece.ok /\ BraceSpan.ok) =>
               fn_result = BraceSpan.val
        /\ (~WholeReply.ok /\ ~FirstPiece.ok /\ ~BraceSpan.ok) => fn_result = JNull

\* the whole reply does not parse, a piece parses, the span parses to a
\* different value, and the piece was returned
C28_Witness ==
    /\ Recovered
    /\ ~WholeReply.ok
    /\ FirstPiece.ok
    /\ BraceSpan.ok
    /\ BraceSpan.val # FirstPiece.val
    /\ fn_result = FirstPiece.val

-----------------------------------------------------------------------------
(* Properties of the texts compare hands to the model call *)

\* what the sanitizer guarantees of a text
Sanitary(s) ==
    /\ ~HasNull(s)
    /\ ~HasNewlineRun(s)
    /\ Len(s) <= MAX_TEXT_LENGTH
    /\ Strip(s) = s

\* C29: whenever compare has called call_openai_completions, the JD text
\* and the resume text it passed are sanitized texts, whether the JD came
\* from a file, from jd_text, or from jd_text after the file failed.
C29_SanitizedInputs ==
    prompt_args.called =>
        /\ Sanitary(prompt_args.jd_text)
        /\ Sanitary(prompt_args.resume_text)

\* the request is one that fails before the model call: in validation, in
\* the extraction of the resume, or in the resolution of the JD
FailsValidation == Validate(req) # NoResponse
FailsResume == ~extract_text_from_file(req.resume_file).ok
FailsJd ==
    \/ JdBranch(req, extract_text_from_file(req.jd_file.file)).raised # NoResponse
    \/ Len(Strip(JdBranch(req, extract_text_from_file(req.jd_file.file)).text))
           < MIN_TEXT_CHARS

\* C30: the endpoint is called at most once, and only after the resume was
\* extracted (sanitized text of at least MIN_TEXT_CHARS characters) and a JD
\* text of at least MIN_TEXT_CHARS characters when stripped was determined;
\* a request that fails validation, resume extraction or JD resolution never
\* reaches the endpoint, and after a failed resume extraction the JD file
\* is not read.
C30_ModelCalledOnce ==
    pc # "idle" =>
        /\ Count("post") <= 1
        /\ Count("post") = 1 =>
               /\ log[Len(Ops("resume")) + Len(Ops("jd")) + 1].op = "post"
               /\ extract_text_from_file(req.resume_file).ok
               /\ resume_text = extract_text_from_file(req.resume_file).text
               /\ Len(resume_text) >= MIN_TEXT_CHARS
               /\ Len(Strip(jd_final_text)) >= MIN_TEXT_CHARS
               /\ prompt_args = [called |-> TRUE, jd_text |-> jd_final_text,
                                 resume_text |-> resume_text]
        /\ (FailsValidation \/ FailsResume \/ FailsJd) =>
               Count("post") = 0 /\ ~prompt_args.called
        /\ FailsValidation => log = <<>>
        /\ (FailsValidation \/ FailsResume) => Ops("jd") = <<>>

\* the request ended with a result after the JD file was read and the
\* endpoint was called once
C30_Witness ==
    /\ Succeeded
    /\ Ops("jd") # <<>>
    /\ Count("post") = 1

-----------------------------------------------------------------------------
(* Properties of concurrent compare requests *)

\* the warnings compare gathers for the request r up to the model call
GatheredWarnings(r) ==
    (IF extract_text_from_file(r.resume_file).warning.some
     THEN <<extract_text_from_file(r.resume_file).warning.text>> ELSE <<>>)
    \o JdBranch(r, extract_text_from_file(r.jd_file.file)).warns

\* the response compare gives the request r when it is served alone and
\* the endpoint, if it is reached, answers o
Alone(r, o) ==
    LET resume == extract_text_from_file(r.resume_file)
        branch == JdBranch(r, extract_text_from_file(r.jd_file.file))
        out    == CompletionOutcome(o)
    IN  IF Validate(r) # NoResponse THEN Validate(r)
        ELSE IF ~resume.ok THEN ResumeError(resume)
        ELSE IF branch.raised # NoResponse THEN branch.raised
        ELSE IF Len(Strip(branch.text)) < MIN_TEXT_CHARS
        THEN HTTPException(400, DETAIL_jd_empty)
        ELSE IF ~apiKey THEN HTTPException(400, DETAIL_no_key)
        ELSE IF out.raised
        THEN HTTPException(502, <<"O","p","e","n","A","I"," ","A","P","I"," ","e",
                                  "r","r","o","r",":"," ">> \o out.msg)
        ELSE Ok200(MergeWarnings(out.result, GatheredWarnings(r)))

\* C23: under every interleaving of the steps of the concurrent requests,
\* the response of each request is the one it gets when served alone, and
\* the texts and warnings it holds on the way are those of its own inputs.
C23_Isolation ==
    \A i \in RequestIds :
        /\ tasks[i].pc = "done" =>
               tasks[i].response = Alone(tasks[i].req, tasks[i].endpoint)
        /\ tasks[i].pc \in {"call_model", "await_model"} =>
               /\ tasks[i].warnings = GatheredWarnings(tasks[i].req)
               /\ tasks[i].resume_text
                      = extract_text_from_file(tasks[i].req.resume_file).text
        /\ tasks[i].prompt_args.called =>
               /\ tasks[i].prompt_args.resume_text = tasks[i].resume_text
               /\ tasks[i].prompt_args.jd_text = tasks[i].jd_final_text

\* two different requests, each with warnings of its own, were in progress
\* together, and both ended with a result
C23_Witness ==
    /\ tasks[1].pc = "done" /\ tasks[2].pc = "done"
    /\ tasks[1].response.status = 200 /\ tasks[2].response.status = 200
    /\ tasks[1].req # tasks[2].req
    /\ GatheredWarnings(tasks[1].req) # <<>>
    /\ GatheredWarnings(tasks[2].req) # <<>>
    /\ GatheredWarnings(tasks[1].req) # GatheredWarnings(tasks[2].req)
    /\ tasks[1].endpoint # tasks[2].endpoint

====
